---- MODULE Spec2Model ----
(***************************************************************************)
(* Nova System Monitor: the monitor data store (fetch coordination and     *)
(* bounded history buffers), modelled from the store code embedded in      *)
(* src/src/routes/cpu/+page.svelte, lines 624-916, and the processes view  *)
(* (sorting, filtering and the process tree) of src/unnamed/part_002.      *)
(*                                                                         *)
(* JavaScript runs the store on one event loop.  An async fetcher runs     *)
(* synchronously up to its `await invoke(...)`; the rest of its body (the  *)
(* try-continuation, catch and finally) runs in one uninterrupted piece    *)
(* when the backend's reply is delivered.  The model therefore has one     *)
(* action for the call of a fetcher, one for the backend producing its     *)
(* reply, and one for the delivery of the reply.                           *)
(***************************************************************************)
EXTENDS Integers, Sequences, FiniteSets, TLC

\* ------------------------------------------------------------------ bounds

\* Fetcher calls that timers and views make in one behaviour of Spec.
MaxCalls == 3

\* fetchAllData calls, and fetcher calls by timers and views, in one behaviour of
\* SpecAll.
MaxAll == 1

MaxDirect == 1

\* Fetcher calls in one behaviour of SpecLong.
MaxLong == 62

\* Pushes in one behaviour of SpecPush, and the period of the pushed values.
MaxPushes == 62

MaxFree == 3

\* The largest reading of the clock in Spec.
MaxNow == 2

\* fetchMemoryInfo calls in one behaviour of SpecMemory.
MaxMemory == 3

\* Fetcher calls in one behaviour of SpecFail.
MaxFail == 2

\* fetchCpuInfo calls in one behaviour of SpecCpu.
MaxCpu == 3

\* fetchDiskInfo calls in one behaviour of SpecDisk.
MaxDisk == 3

\* View components mounted in one behaviour of SpecTimers.
MaxMounts == 2

\* Timer firings in one behaviour of SpecTimers.
MaxFires == 2

\* ---------------------------------------------------------- program constants

MAX_HISTORY == 60

\* ------------------------------------------------------------ JavaScript values

\* Every modelled JavaScript value is a record with a `kind`, so that values of
\* different JavaScript types can be compared.
JSNull == [kind |-> "null"]

Undefined == [kind |-> "undefined"]

Str(s) == [kind |-> "string", s |-> s]

Num(n) == [kind |-> "number", n |-> n]

NaN == [kind |-> "nan"]

Infinity == [kind |-> "infinity"]

NegInfinity == [kind |-> "-infinity"]

\* A JavaScript array.
Arr(items) == [kind |-> "array", items |-> items]

IsArray(x) == x.kind = "array"

\* An Error object; its toString() is "Error: " followed by the message.
ErrorObj(m) == [kind |-> "error", message |-> m]

\* A plain object with no message property; its toString() is "[object Object]".
PlainObj == [kind |-> "object"]

\* x ?? dflt
Nullish(x, dflt) == IF x.kind \in {"null", "undefined"} THEN dflt ELSE x

\* Number.isFinite(x)
IsFinite(x) == x.kind = "number"

\* The TypeError a property read on null or undefined throws.
TypeError == ErrorObj("Cannot read properties of null")

\* ---------------------------------------------------------------- domains

Domains == {"cpu", "memory", "gpu", "disk", "network", "process", "sensors", "system"}

HistoryDomains == {"cpu", "memory", "disk", "network"}

PlainDomains == Domains \ HistoryDomains

\* ------------------------------------------------------------ history buffers

\* pushHistory with the newest value dropped at capacity in place of the oldest.
pushHistoryPop(buffer, value) ==
    LET v == IF ~IsFinite(value) THEN 0 ELSE value.n
        pushed == Append(buffer, v)
    IN  IF Len(pushed) > MAX_HISTORY THEN SubSeq(pushed, 1, MAX_HISTORY) ELSE pushed

\* pushHistory that leaves a value that is not finite out.
pushHistorySkip(buffer, value) ==
    IF ~IsFinite(value) THEN buffer
    ELSE LET pushed == Append(buffer, value.n)
         IN  IF Len(pushed) > MAX_HISTORY THEN Tail(pushed) ELSE pushed

\* pushHistory(buffer, value): the buffer after the call.
pushHistory(buffer, value) ==
    LET v == IF ~IsFinite(value) THEN 0 ELSE value.n
        pushed == Append(buffer, v)
    IN  IF Len(pushed) > MAX_HISTORY THEN Tail(pushed) ELSE pushed

\* pushTimestamp without its bounds check.
pushTimestampUnbounded(buffer, t) == Append(buffer, t)

\* pushTimestamp(buffer) at clock reading t (Date.now() / 1000).
pushTimestamp(buffer, t) ==
    LET pushed == Append(buffer, t)
    IN  IF Len(pushed) > MAX_HISTORY THEN Tail(pushed) ELSE pushed

\* The string form tried before the message.
ErrorTextStringFirst(e) ==
    CASE e.kind = "string" /\ e.s # "" -> e.s
      [] e.kind = "error" -> IF e.message = "" THEN "Error" ELSE "Error: " \o e.message
      [] e.kind = "object" -> "[object Object]"
      [] OTHER -> "Unknown error"

\* e?.message || e?.toString() || 'Unknown error'
ErrorText(e) ==
    LET message == IF e.kind = "error" THEN e.message ELSE ""
        string == CASE e.kind = "string" -> e.s
                    [] e.kind = "error" ->
                        IF e.message = "" THEN "Error" ELSE "Error: " \o e.message
                    [] e.kind = "object" -> "[object Object]"
                    [] OTHER -> ""
    IN  IF message # "" THEN message
        ELSE IF string # "" THEN string
        ELSE "Unknown error"

\* Reading a property of x throws exactly when x is null or undefined.
ReadThrows(x) == x.kind \in {"null", "undefined"}

\* x > 0
Positive(x) == \/ x.kind = "number" /\ x.n > 0
               \/ x.kind = "infinity"

\* The operand used as it is, without the default.
NotDefaulted(x) == x

\* x || 0 for a numeric operand: a falsy x (undefined, null, 0, NaN) gives 0.
OrZero(x) == IF x.kind \in {"null", "undefined", "nan"} THEN Num(0) ELSE x

\* a + b on numbers.
Add(a, b) ==
    CASE a.kind = "number" /\ b.kind = "number" -> Num(a.n + b.n)
      [] a.kind = "nan" \/ b.kind = "nan" -> NaN
      [] a.kind \in {"null", "undefined"} \/ b.kind \in {"null", "undefined"} -> NaN
      [] a.kind = "infinity" /\ b.kind = "-infinity" -> NaN
      [] a.kind = "-infinity" /\ b.kind = "infinity" -> NaN
      [] a.kind = "number" -> b
      [] OTHER -> a

\* used / total, not scaled to a percentage.
Ratio(used, total) ==
    IF used.kind = "number" /\ total.kind = "number" THEN Num(used.n \div total.n)
    ELSE NaN

\* (used / total) * 100, evaluated only when total > 0.  The inputs of the model
\* are chosen so that the quotient is a whole number.
Percent(used, total) ==
    CASE used.kind = "number" /\ total.kind = "number" -> Num((used.n * 100) \div total.n)
      [] used.kind = "number" /\ total.kind = "infinity" -> Num(0)
      [] used.kind = "null" /\ total.kind = "number" -> Num(0)
      [] used.kind = "null" /\ total.kind = "infinity" -> Num(0)
      [] used.kind \in {"infinity", "-infinity"} /\ total.kind = "number" -> used
      [] OTHER -> NaN

\* ------------------------------------------------------------- backend replies

\* get_cpu_info: cores is Arr of core objects (or of nulls), or not an array.
CpuSnap(g, cores) == [kind |-> "object", global_usage |-> g, cores |-> cores]

Core(u) == [kind |-> "object", usage |-> u]

MemSnap(total, used, totalSwap, usedSwap) ==
    [kind |-> "object", total_memory |-> total, used_memory |-> used,
     total_swap |-> totalSwap, used_swap |-> usedSwap]

DiskSnap(disks) == [kind |-> "object", disks |-> disks]

Disk(r, w) == [kind |-> "object", read_bytes |-> r, written_bytes |-> w]

NetSnap(down, up) ==
    [kind |-> "object", total_download_rate |-> down, total_upload_rate |-> up]

\* A snapshot of a domain that keeps no history (gpu, process, sensors, system).
PlainSnap(n) == [kind |-> "object", id |-> n]

\* What the backend may resolve a request of domain d with.  JSNull stands for
\* a reply that decodes to null or undefined.
Responses(d) ==
    CASE d = "cpu" -> {CpuSnap(Num(10), Arr(<<Core(Num(10))>>)),
                       CpuSnap(Num(30), Arr(<<Core(Num(20)), Core(Num(40))>>)),
                       JSNull}
      [] d = "memory" -> {MemSnap(Num(8), Num(4), Num(0), Num(0)), JSNull}
      [] d = "disk" -> {DiskSnap(Arr(<<Disk(Num(5), Num(7)), Disk(Num(1), Undefined)>>)),
                        DiskSnap(Arr(<<JSNull>>))}
      [] d = "network" -> {NetSnap(Num(100), Undefined), JSNull}
      [] OTHER -> {PlainSnap(1), PlainSnap(2)}

\* What the backend may reject a request with.
Reasons == {Str("backend down"), ErrorObj("timeout")}

\* ---------------------------------------------------------------- the state

VARIABLES
    fetchLocks,      \* fetchLocks: domain -> in-flight flag (absent reads as false)
    info,            \* cpuInfo, memoryInfo, ...: domain -> [data, loading, error]
    cpuHistory,      \* [timestamps, global, cores]
    memoryHistory,   \* [timestamps, ram_used, swap_used]
    diskHistory,     \* [timestamps, read, write]
    networkHistory,  \* [timestamps, download, upload]
    inflight,        \* domain -> number of invoke() calls the backend has not settled
    requests,        \* domain -> the outstanding invoke() calls in the order issued,
                     \* each with whether the reply to a later call has been applied
                     \* already, and whether a reply was ever applied after the
                     \* reply to a later call
    allWaits,        \* the suspended fetchAllData calls: the domains each still awaits
    now,             \* the clock, as last read by pushTimestamp
    calls,           \* number of fetcher calls (of Refresh) or timer firings counted
    issued,          \* number of invoke() calls those fetcher calls made
    allCalls,        \* number of fetchAllData calls made
    allCompleted,    \* number of fetchAllData calls that have completed
    orphaned,        \* domains whose outstanding invoke() was made by a fetchAllData
                     \* call that has completed since
    escaped,         \* whether a fetcher has thrown to its caller
    buffer,          \* a history buffer on its own (SpecPush)
    pushes,          \* every value pushed into buffer so far, oldest first
    mounted,         \* the views that are mounted
    searchQuery,     \* processes view: the search string
    viewMode,        \* processes view: "flat" or "tree"
    sortBy,          \* processes view: the sort key
    sortOrder,       \* processes view: "asc" or "desc"
    processes,       \* processes view: what getProcesses() returned to the template
    tree,            \* processes view: the node objects and the roots that
                     \* buildProcessTree left, when getProcesses() called it
    timers,          \* the timers (setTimeout, setInterval) that are set and not cleared
    mounts,          \* number of view components mounted so far
    kills,           \* processes view: the kill_process requests sent, in the order
                     \* sent, each pending, ok or failed
    alerts           \* number of alert() dialogs raised

storeVars == <<fetchLocks, info, cpuHistory, memoryHistory, diskHistory, networkHistory,
               inflight, requests, allWaits, now, calls, issued, allCalls,
               allCompleted, orphaned, escaped>>

\* The state of the processes view.
viewVars == <<mounted, searchQuery, viewMode, sortBy, sortOrder, processes, tree>>

\* The timers of the views.
timerVars == <<timers, mounts>>

\* The kill requests of the processes view and the alerts shown.
killVars == <<kills, alerts>>

vars == <<storeVars, buffer, pushes, viewVars, timerVars, killVars>>

cpuInfo == info["cpu"]

memoryInfo == info["memory"]

gpuInfo == info["gpu"]

diskInfo == info["disk"]

networkInfo == info["network"]

processInfo == info["process"]

sensorsInfo == info["sensors"]

systemInfo == info["system"]

\* The reply of the backend to one invoke(): it resolves with a value or rejects
\* with a reason.
Resolved(v) == [st |-> "resolved", value |-> v]

Rejected(e) == [st |-> "rejected", value |-> e]

Init ==
    /\ fetchLocks = [d \in Domains |-> FALSE]
    /\ info = [d \in Domains |-> [data |-> JSNull, loading |-> FALSE, error |-> JSNull]]
    /\ cpuHistory = [timestamps |-> <<>>, global |-> <<>>, cores |-> <<>>]
    /\ memoryHistory = [timestamps |-> <<>>, ram_used |-> <<>>, swap_used |-> <<>>]
    /\ diskHistory = [timestamps |-> <<>>, read |-> <<>>, write |-> <<>>]
    /\ networkHistory = [timestamps |-> <<>>, download |-> <<>>, upload |-> <<>>]
    /\ inflight = [d \in Domains |-> 0]
    /\ requests = [d \in Domains |-> [overtaken |-> <<>>, stale |-> FALSE]]
    /\ allWaits = <<>>
    /\ now = 1
    /\ calls = 0
    /\ issued = 0
    /\ allCalls = 0
    /\ allCompleted = 0
    /\ orphaned = {}
    /\ escaped = FALSE
    /\ buffer = <<>>
    /\ pushes = <<>>
    /\ mounted = {}
    /\ searchQuery = Str(<<>>)
    /\ viewMode = "flat"
    /\ sortBy = "cpu_usage"
    /\ sortOrder = "desc"
    /\ processes = <<>>
    /\ tree = [heap |-> <<>>, roots |-> <<>>, overflow |-> FALSE]
    /\ timers = {}
    /\ mounts = 0
    /\ kills = <<>>
    /\ alerts = 0

\* ------------------------------------------------------- strings of the processes view

\* The UTF-16 code of each character the process data of the model is written
\* with.
CharCode ==
    ("A" :> 65) @@ ("B" :> 66) @@ ("C" :> 67) @@ ("U" :> 85) @@
    ("a" :> 97) @@ ("b" :> 98) @@ ("c" :> 99) @@ ("k" :> 107) @@ ("n" :> 110) @@
    ("o" :> 111) @@ ("w" :> 119) @@
    ("0" :> 48) @@ ("1" :> 49) @@ ("2" :> 50) @@ ("3" :> 51)

\* The JavaScript string with the given characters: a sequence of character
\* codes, so that it can be compared, searched and put in lower case as
\* JavaScript does.
Text(chars) == Str([i \in DOMAIN chars |-> CharCode[chars[i]]])

\* s.toLowerCase()
toLowerCase(s) ==
    Str([i \in DOMAIN s.s |-> IF s.s[i] \in 65..90 THEN s.s[i] + 32 ELSE s.s[i]])

\* s.includes(q)
includes(s, q) ==
    \E i \in 0..(Len(s.s) - Len(q.s)) : SubSeq(s.s, i + 1, i + Len(q.s)) = q.s

\* The decimal digits of a natural number, as character codes.
RECURSIVE Digits(_)
Digits(n) == IF n < 10 THEN <<48 + n>> ELSE Append(Digits(n \div 10), 48 + (n % 10))

\* n.toString() of a non-negative integer.
toString(x) == Str(Digits(x.n))

\* x < y on two sequences of character codes: the first differing code decides,
\* a proper prefix is smaller.
CodesLess(x, y) ==
    \E i \in DOMAIN y :
        /\ \A j \in 1..(i - 1) : j <= Len(x) /\ x[j] = y[j]
        /\ i > Len(x) \/ x[i] < y[i]

\* a < b on two numbers or on two strings.
Less(a, b) ==
    IF a.kind = "number" /\ b.kind = "number" THEN a.n < b.n
    ELSE a.kind = "string" /\ b.kind = "string" /\ CodesLess(a.s, b.s)

\* x is truthy: not null, undefined, the empty string, 0 or NaN.
Truthy(x) ==
    CASE x.kind \in {"null", "undefined", "nan"} -> FALSE
      [] x.kind = "string" -> x.s # <<>>
      [] x.kind = "number" -> x.n # 0
      [] OTHER -> TRUE

\* ------------------------------------------------------------ the processes view

\* One element of the get_processes reply, with the fields the view's sorting,
\* filtering and tree building read.
Process(pid, parent_pid, name, status, cpu_usage, memory_bytes, user_id) ==
    [kind |-> "object", pid |-> pid, parent_pid |-> parent_pid, name |-> name,
     status |-> status, cpu_usage |-> cpu_usage, memory_bytes |-> memory_bytes,
     user_id |-> user_id]

\* status as an object: { type: ... }
StatusObj(type) == [kind |-> "object", type |-> type]

\* The get_processes reply.
ProcSnap(list) == [kind |-> "object", processes |-> Arr(list)]

Unknown == Text(<<"U", "n", "k", "n", "o", "w", "n">>)

\* normalizeProcess(p): a new object with p's fields and the tree and display
\* fields.
normalizeProcess(p) ==
    [kind |-> "object", pid |-> p.pid, parent_pid |-> p.parent_pid, name |-> p.name,
     status |-> p.status, cpu_usage |-> p.cpu_usage, memory_bytes |-> p.memory_bytes,
     user_id |-> p.user_id,
     children |-> <<>>,
     depth |-> 0,
     is_expanded |-> TRUE,
     normalized_status |->
         IF p.status.kind = "string" THEN p.status
         ELSE IF p.status.kind = "object" /\ Truthy(p.status.type) THEN p.status.type
         ELSE Unknown,
     normalized_user |-> IF Truthy(p.user_id) THEN p.user_id ELSE Unknown]

\* The field compareProcesses reads for sort key `by` (lower-cased for name).
SortValue(a, by) ==
    CASE by = "status" -> a.normalized_status
      [] by = "user" -> a.normalized_user
      [] by = "name" -> toLowerCase(a.name)
      [] by = "pid" -> a.pid
      [] by = "cpu_usage" -> a.cpu_usage
      [] OTHER -> a.memory_bytes

\* The comparator without the adjustment for the direction.
compareProcessesAscending(a, b, by, order) ==
    LET aVal == SortValue(a, by)
        bVal == SortValue(b, by)
    IN  IF Less(aVal, bVal) THEN -1 ELSE IF Less(bVal, aVal) THEN 1 ELSE 0

\* compareProcesses(a, b) while sortBy is `by` and sortOrder is `order`.
compareProcesses(a, b, by, order) ==
    LET aVal == SortValue(a, by)
        bVal == SortValue(b, by)
        compare == IF Less(aVal, bVal) THEN -1 ELSE IF Less(bVal, aVal) THEN 1 ELSE 0
    IN  IF order = "asc" THEN compare ELSE -compare

\* The largest number of a non-empty set of numbers.
Maximum(S) == CHOOSE k \in S : \A i \in S : i <= k

\* The array s with x put in after its first k items.
InsertAt(s, k, x) == SubSeq(s, 1, k) \o <<x>> \o SubSeq(s, k + 1, Len(s))

\* The sorted array s with x put in after the last item that does not compare
\* greater than x.
InsertSorted(heap, s, x, by, order) ==
    InsertAt(s,
             Maximum({0} \cup {j \in DOMAIN s :
                                  compareProcesses(heap[s[j]], heap[x], by, order) <= 0}),
             x)

\* Array.prototype.sort(compareProcesses) on an array of references into `heap`
\* (the node objects): the sort is stable, so an item goes after every item that
\* does not compare greater than it.
RECURSIVE ArraySort(_, _, _, _)
ArraySort(heap, refs, by, order) ==
    IF refs = <<>> THEN <<>>
    ELSE InsertSorted(heap, ArraySort(heap, SubSeq(refs, 1, Len(refs) - 1), by, order),
                      refs[Len(refs)], by, order)

\* The error a recursion deeper than the engine's call stack raises.  A
\* recursion over the nodes that is deeper than the number of nodes has come
\* back to a node it is already in, and never ends.
RangeError == ErrorObj("Maximum call stack size exceeded")

\* processMap after step 1 of buildProcessTree: pid -> the node (its index in
\* flatProcesses) that was set last for that pid.
ProcessMap(flatProcesses) ==
    [pid \in {flatProcesses[i].pid : i \in DOMAIN flatProcesses} |->
        CHOOSE i \in DOMAIN flatProcesses :
            /\ flatProcesses[i].pid = pid
            /\ \A j \in DOMAIN flatProcesses : flatProcesses[j].pid = pid => j <= i]

\* p.parent_pid !== null && processMap.has(p.parent_pid), for node i.
HasParent(flatProcesses, processMap, i) ==
    /\ flatProcesses[i].parent_pid # JSNull
    /\ flatProcesses[i].parent_pid \in DOMAIN processMap

\* The indices 1..n in order.
Indices(n) == [i \in 1..n |-> i]

\* Every node pushed to roots, whether it has a parent or not.
RootsAll(flatProcesses) == Indices(Len(flatProcesses))

\* Only a node without a parent_pid pushed to roots.
RootsParentless(flatProcesses) ==
    SelectSeq(Indices(Len(flatProcesses)),
              LAMBDA i : flatProcesses[i].parent_pid = JSNull)

\* roots after step 2 of buildProcessTree: the nodes without a parent among
\* flatProcesses, in the order of flatProcesses.
Roots(flatProcesses) ==
    LET processMap == ProcessMap(flatProcesses)
    IN  SelectSeq(Indices(Len(flatProcesses)),
                  LAMBDA i : ~HasParent(flatProcesses, processMap, i))

\* The children list of node k after step 2: the nodes whose parent_pid maps to
\* k, in the order of flatProcesses.
Children(flatProcesses, processMap, k) ==
    SelectSeq(Indices(Len(flatProcesses)),
              LAMBDA i : /\ HasParent(flatProcesses, processMap, i)
                         /\ processMap[flatProcesses[i].parent_pid] = k)

\* The node objects after steps 1 and 2 of buildProcessTree: children holds
\* references (indices) to nodes.
Linked(flatProcesses) ==
    LET processMap == ProcessMap(flatProcesses)
    IN  [k \in DOMAIN flatProcesses |->
            [flatProcesses[k] EXCEPT !.children = Children(flatProcesses, processMap, k),
                                     !.depth = 0]]

\* The children given the depth of their parent.
ChildDepthSame(depth) == depth

\* depth + 1: the depth of the children of a node at `depth`.
ChildDepth(depth) == depth + 1

\* sortRecursive(nodes, depth) of buildProcessTree, and its nodes.forEach from
\* item i on: `heap` is the node objects, `nodes` an array of references to
\* them, `fuel` the call depth left.  Gives the node objects after the call, the
\* array as sorted, and whether the call stack was exhausted.
RECURSIVE sortRecursive(_, _, _, _, _, _)
RECURSIVE SortEach(_, _, _, _, _, _, _)
\* sortRecursive that sorts the roots and leaves the children lists as built.
sortRecursiveRootsOnly(heap, nodes, depth, fuel, by, order) ==
    IF fuel = 0 THEN [heap |-> heap, sorted |-> nodes, overflow |-> TRUE]
    ELSE LET sorted == IF depth = 0 THEN ArraySort(heap, nodes, by, order) ELSE nodes
             each == SortEach(heap, sorted, 1, depth, fuel, by, order)
         IN  [heap |-> each.heap, sorted |-> sorted, overflow |-> each.overflow]

sortRecursive(heap, nodes, depth, fuel, by, order) ==
    IF fuel = 0 THEN [heap |-> heap, sorted |-> nodes, overflow |-> TRUE]
    ELSE LET sorted == ArraySort(heap, nodes, by, order)
             each == SortEach(heap, sorted, 1, depth, fuel, by, order)
         IN  [heap |-> each.heap, sorted |-> sorted, overflow |-> each.overflow]

SortEach(heap, sorted, i, depth, fuel, by, order) ==
    IF i > Len(sorted) THEN [heap |-> heap, overflow |-> FALSE]
    ELSE LET node == sorted[i]
             h1 == [heap EXCEPT ![node].depth = depth]
         IN  IF h1[node].children = <<>> THEN SortEach(h1, sorted, i + 1, depth, fuel, by, order)
             ELSE LET sub == sortRecursive(h1, h1[node].children, ChildDepth(depth), fuel - 1,
                                           by, order)
                      h2 == [sub.heap EXCEPT ![node].children = sub.sorted]
                  IN  IF sub.overflow THEN [heap |-> h2, overflow |-> TRUE]
                      ELSE SortEach(h2, sorted, i + 1, depth, fuel, by, order)

\* buildProcessTree(flatProcesses): the node objects, the sorted roots, and
\* whether the call stack was exhausted.
buildProcessTree(flatProcesses, by, order) ==
    LET built == sortRecursive(Linked(flatProcesses), Roots(flatProcesses), 0,
                               Len(flatProcesses) + 1, by, order)
    IN  [heap |-> built.heap, roots |-> built.sorted, overflow |-> built.overflow]

\* flattenTree that pushes a node after its children instead of before them.
RECURSIVE flattenTreeChildrenFirst(_, _, _, _, _)
flattenTreeChildrenFirst(heap, nodes, i, result, fuel) ==
    IF i > Len(nodes) THEN [result |-> result, overflow |-> FALSE]
    ELSE LET node == nodes[i]
         IN  IF heap[node].children = <<>> \/ ~heap[node].is_expanded
             THEN flattenTreeChildrenFirst(heap, nodes, i + 1, Append(result, node), fuel)
             ELSE IF fuel = 0 THEN [result |-> Append(result, node), overflow |-> TRUE]
             ELSE LET sub == flattenTreeChildrenFirst(heap, heap[node].children, 1,
                                                      result, fuel - 1)
                  IN  IF sub.overflow THEN sub
                      ELSE flattenTreeChildrenFirst(heap, nodes, i + 1,
                                                    Append(sub.result, node), fuel)

\* flattenTree(nodes, result) from item i of nodes on: the references pushed to
\* result, and whether the call stack was exhausted.
RECURSIVE flattenTree(_, _, _, _, _)
flattenTree(heap, nodes, i, result, fuel) ==
    IF i > Len(nodes) THEN [result |-> result, overflow |-> FALSE]
    ELSE LET node == nodes[i]
             pushed == Append(result, node)
         IN  IF heap[node].children = <<>> \/ ~heap[node].is_expanded
             THEN flattenTree(heap, nodes, i + 1, pushed, fuel)
             ELSE IF fuel = 0 THEN [result |-> pushed, overflow |-> TRUE]
             ELSE LET sub == flattenTree(heap, heap[node].children, 1, pushed, fuel - 1)
                  IN  IF sub.overflow THEN sub
                      ELSE flattenTree(heap, nodes, i + 1, sub.result, fuel)

\* The array forEach(normalizeProcess) would leave: the store's own array, its
\* elements normalized in place.
MappedInPlace(items) ==
    [shared |-> TRUE, items |-> [i \in DOMAIN items |-> normalizeProcess(items[i])]]

\* monitor.processInfo.data.processes.map(normalizeProcess): a new array of new
\* objects, which shares nothing with the store.
Mapped(items) ==
    [shared |-> FALSE, items |-> [i \in DOMAIN items |-> normalizeProcess(items[i])]]

\* A filter on the name alone.
MatchesName(p, query) == includes(toLowerCase(p.name), query)

\* The filter of getProcesses on node p, for the lower-cased query.
Matches(p, query) ==
    \/ includes(toLowerCase(p.name), query)
    \/ includes(toString(p.pid), query)
    \/ p.user_id.kind = "string" /\ includes(toLowerCase(p.user_id), query)

\* A filter that also keeps the parent of a process that matches.
FilteredWithParents(data, query) ==
    LET rawProcesses == Mapped(data.processes.items).items
    IN  IF Truthy(query)
        THEN SelectSeq(rawProcesses,
                       LAMBDA p : \/ Matches(p, toLowerCase(query))
                                  \/ \E i \in DOMAIN rawProcesses :
                                         /\ Matches(rawProcesses[i], toLowerCase(query))
                                         /\ rawProcesses[i].parent_pid = p.pid)
        ELSE rawProcesses

\* rawProcesses of getProcesses after the filter, for the snapshot `data` and
\* the search string `query`.
Filtered(data, query) ==
    LET rawProcesses == Mapped(data.processes.items).items
    IN  IF Truthy(query)
        THEN SelectSeq(rawProcesses, LAMBDA p : Matches(p, toLowerCase(query)))
        ELSE rawProcesses

\* flattenedTree of getProcesses for the tree that buildProcessTree returned:
\* the node objects in the order flattenTree pushed them.
Flattened(built) ==
    LET flat == flattenTree(built.heap, built.roots, 1, <<>>, Len(built.heap) + 1)
    IN  IF built.overflow \/ flat.overflow THEN <<RangeError>>
        ELSE [i \in DOMAIN flat.result |-> built.heap[flat.result[i]]]

\* getProcesses() while monitor.processInfo.data, searchQuery, viewMode, sortBy
\* and sortOrder have the given values.
GetProcessesOf(data, query, mode, by, order) ==
    IF ~Truthy(data) THEN <<>>
    ELSE LET rawProcesses == Filtered(data, query)
         IN  IF mode = "tree"
             THEN Flattened(buildProcessTree(rawProcesses, by, order))
             ELSE LET sorted == ArraySort(rawProcesses, Indices(Len(rawProcesses)),
                                          by, order)
                  IN  [i \in DOMAIN sorted |-> rawProcesses[sorted[i]]]

\* getProcesses(): what the template gets to render.
getProcesses ==
    GetProcessesOf(info["process"].data, searchQuery, viewMode, sortBy, sortOrder)

\* The template of the view shows the table, and calls getProcesses() for it,
\* when there is data and no error, and a notice otherwise.
TableShown(state) ==
    ~((state.loading /\ ~Truthy(state.data)) \/ state.error # JSNull
          \/ ~Truthy(state.data))

\* The processes the template of the view renders for the process DomainState
\* `state`.
Template(state, query, mode, by, order) ==
    IF TableShown(state) THEN GetProcessesOf(state.data, query, mode, by, order)
    ELSE <<>>

\* No tree was built.
NoTree == [heap |-> <<>>, roots |-> <<>>, overflow |-> FALSE]

\* What buildProcessTree leaves when the template is rendered: it is called in
\* tree mode, on the filtered list.
TreeBuilt(state, query, mode, by, order) ==
    IF TableShown(state) /\ mode = "tree"
    THEN buildProcessTree(Filtered(state.data, query), by, order)
    ELSE NoTree

\* The template is evaluated again after each event that changes what it reads,
\* as long as the view is mounted; in tree mode getProcesses() returns the
\* flattened tree it has built.
Rerender ==
    /\ tree' = IF "processes" \in mounted'
               THEN TreeBuilt(info'["process"], searchQuery', viewMode', sortBy',
                              sortOrder')
               ELSE tree
    /\ processes' = IF "processes" \notin mounted' THEN processes
                    ELSE IF TableShown(info'["process"]) /\ viewMode' = "tree"
                    THEN Flattened(tree')
                    ELSE Template(info'["process"], searchQuery', viewMode', sortBy',
                                  sortOrder')

\* monitor.processInfo.data once getProcesses has returned: getProcesses writes
\* to (sorts, links, sets the depth of) the array and the objects that map made.
DataAfterGetProcesses(data) ==
    IF ~Truthy(data) THEN data
    ELSE LET rawProcesses == Mapped(data.processes.items)
         IN  IF rawProcesses.shared
             THEN [data EXCEPT !.processes = Arr(rawProcesses.items)]
             ELSE data

\* ------------------------------------------------ the try blocks of the fetchers

\* The result of a try block: the history it leaves and what it threw (NoThrow
\* when it ran to its end).
NoThrow == [kind |-> "nothing"]

\* The forEach that also deletes the buffers of the cores the snapshot does not
\* list.
RECURSIVE CoresLoopPruned(_, _, _)
CoresLoopPruned(cores, items, i) ==
    IF i > Len(items)
    THEN [cores |-> [k \in DOMAIN cores \cap (0..(Len(items) - 1)) |-> cores[k]],
          thrown |-> NoThrow]
    ELSE LET index == i - 1
             has == IF index \in DOMAIN cores THEN cores ELSE cores @@ (index :> <<>>)
         IN  IF ReadThrows(items[i]) THEN [cores |-> has, thrown |-> TypeError]
             ELSE CoresLoopPruned([has EXCEPT ![index] =
                                       pushHistory(@, Nullish(items[i].usage, Num(0)))],
                                  items, i + 1)

\* data.cores.forEach(...) of fetchCpuInfo from item i on: the per-core map it
\* leaves and what it threw.  Core index i - 1 is item i of the array.
RECURSIVE CoresLoop(_, _, _)
CoresLoop(cores, items, i) ==
    IF i > Len(items) THEN [cores |-> cores, thrown |-> NoThrow]
    ELSE LET index == i - 1
             has == IF index \in DOMAIN cores THEN cores ELSE cores @@ (index :> <<>>)
         IN  IF ReadThrows(items[i]) THEN [cores |-> has, thrown |-> TypeError]
             ELSE CoresLoop([has EXCEPT ![index] =
                                 pushHistory(@, Nullish(items[i].usage, Num(0)))],
                            items, i + 1)

\* fetchCpuInfo, after cpuInfo.data = data.
CpuTry(data, hist, t) ==
    LET h1 == [hist EXCEPT !.timestamps = pushTimestamp(@, t)]
    IN  IF ReadThrows(data) THEN [hist |-> h1, thrown |-> TypeError]
        ELSE LET h2 == [h1 EXCEPT !.global =
                            pushHistory(@, Nullish(data.global_usage, Num(0)))]
             IN  IF ~IsArray(data.cores) THEN [hist |-> h2, thrown |-> NoThrow]
                 ELSE LET loop == CoresLoop(h2.cores, data.cores.items, 1)
                      IN  [hist |-> [h2 EXCEPT !.cores = loop.cores],
                           thrown |-> loop.thrown]

\* fetchMemoryInfo, after memoryInfo.data = data.
MemoryTry(data, hist, t) ==
    LET h1 == [hist EXCEPT !.timestamps = pushTimestamp(@, t)]
    IN  IF ReadThrows(data) THEN [hist |-> h1, thrown |-> TypeError]
        ELSE LET ramPercent == IF Positive(data.total_memory)
                               THEN Percent(data.used_memory, data.total_memory)
                               ELSE Num(0)
                 swapPercent == IF Positive(data.total_swap)
                                THEN Percent(data.used_swap, data.total_swap)
                                ELSE Num(0)
             IN  [hist |-> [h1 EXCEPT !.ram_used = pushHistory(@, ramPercent),
                                      !.swap_used = pushHistory(@, swapPercent)],
                  thrown |-> NoThrow]

\* data.disks.forEach(...) of fetchDiskInfo from item i on: the two totals, or
\* what reading a disk threw.
RECURSIVE DisksLoop(_, _, _, _)
DisksLoop(items, i, totalRead, totalWrite) ==
    IF i > Len(items)
    THEN [totalRead |-> totalRead, totalWrite |-> totalWrite, thrown |-> NoThrow]
    ELSE IF ReadThrows(items[i])
    THEN [totalRead |-> totalRead, totalWrite |-> totalWrite, thrown |-> TypeError]
    ELSE DisksLoop(items, i + 1, Add(totalRead, OrZero(items[i].read_bytes)),
                   Add(totalWrite, OrZero(items[i].written_bytes)))

\* fetchDiskInfo, after diskInfo.data = data.
DiskTry(data, hist, t) ==
    IF ReadThrows(data) THEN [hist |-> hist, thrown |-> TypeError]
    ELSE LET loop == IF IsArray(data.disks)
                     THEN DisksLoop(data.disks.items, 1, Num(0), Num(0))
                     ELSE [totalRead |-> Num(0), totalWrite |-> Num(0),
                           thrown |-> NoThrow]
         IN  IF loop.thrown # NoThrow THEN [hist |-> hist, thrown |-> loop.thrown]
             ELSE [hist |-> [hist EXCEPT !.timestamps = pushTimestamp(@, t),
                                         !.read = pushHistory(@, loop.totalRead),
                                         !.write = pushHistory(@, loop.totalWrite)],
                   thrown |-> NoThrow]

\* fetchNetworkInfo, after networkInfo.data = data.
NetworkTry(data, hist, t) ==
    LET h1 == [hist EXCEPT !.timestamps = pushTimestamp(@, t)]
    IN  IF ReadThrows(data) THEN [hist |-> h1, thrown |-> TypeError]
        ELSE [hist |-> [h1 EXCEPT
                           !.download = pushHistory(@, Nullish(data.total_download_rate, Num(0))),
                           !.upload = pushHistory(@, Nullish(data.total_upload_rate, Num(0)))],
              thrown |-> NoThrow]

\* A catch that handles the rejections of invoke and lets the exceptions of the
\* try block through.
CatchRejections(e) == [error |-> Str(ErrorText(e)), uncaught |-> e = TypeError]

\* catch (e) { info.error = ... }: every exception of the try block, and a
\* rejection of invoke, is caught; none goes on to the caller.
Catch(e) == [error |-> Str(ErrorText(e)), uncaught |-> FALSE]

\* The DomainState a settled invoke leaves, given what the try block threw (for
\* a rejected invoke, the rejection itself): data is assigned only when invoke
\* resolved, catch records the error, finally clears loading.
AfterReply(state, reply, thrown) ==
    [data |-> IF reply.st = "resolved" THEN reply.value ELSE state.data,
     loading |-> FALSE,
     error |-> IF thrown = NoThrow \/ Catch(thrown).uncaught THEN state.error
               ELSE Catch(thrown).error]

\* The flag cleared at the end of the try block instead of in finally.
ReleaseAtEndOfTry(d, thrown) == IF thrown = NoThrow THEN FALSE ELSE fetchLocks[d]

\* finally { fetchLocks.set(d, false) }: the in-flight flag of domain d once its
\* fetcher has ended, whatever was thrown.
Release(d, thrown) == FALSE

\* The error of the previous refresh left in place.
PrologueKeepsError(state) == [state EXCEPT !.loading = TRUE]

\* loading = true; error = null, before the try block.
Prologue(state) == [state EXCEPT !.loading = TRUE, !.error = JSNull]

\* ------------------------------------------------------------------ actions

\* The guard left out: a fetcher never returns early.
DroppedNever(d) == FALSE

\* One in-flight flag for all the domains.
DroppedForAny(d) == \E e \in Domains : fetchLocks[e]

\* if (fetchLocks.get(d)) return;
Dropped(d) == fetchLocks[d]

\* The fetchers of the domains in S, each called once and run up to its await:
\* a fetcher whose in-flight flag is set returns at once, the others set the
\* flag, set loading, clear error and call invoke().
FetchEach(S) ==
    /\ fetchLocks' = [d \in Domains |-> IF d \in S /\ ~Dropped(d) THEN TRUE
                                         ELSE fetchLocks[d]]
    /\ info' = [d \in Domains |-> IF d \in S /\ ~Dropped(d)
                                   THEN Prologue(info[d])
                                   ELSE info[d]]
    /\ inflight' = [d \in Domains |-> IF d \in S /\ ~Dropped(d) THEN inflight[d] + 1
                                       ELSE inflight[d]]
    /\ requests' = [d \in Domains |->
                        IF d \in S /\ ~Dropped(d)
                        THEN [requests[d] EXCEPT !.overtaken = Append(@, FALSE)]
                        ELSE requests[d]]

\* A timer or a view calls the fetcher of domain d (fetchCpuInfo, ...).
Refresh(d) ==
    /\ FetchEach({d})
    /\ calls' = calls + 1
    /\ issued' = IF Dropped(d) THEN issued ELSE issued + 1
    /\ UNCHANGED <<cpuHistory, memoryHistory, diskHistory, networkHistory, allWaits,
                   now, allCalls, allCompleted, orphaned, escaped, buffer, pushes,
                   mounted, searchQuery, viewMode, sortBy, sortOrder, timerVars, killVars>>
    /\ Rerender

\* Promise.race in place of Promise.allSettled: fulfilled as soon as one of the
\* eight promises is.
FirstSettled(waiting) == waiting # Domains

\* Promise.allSettled over the promises still awaited: it is fulfilled when none
\* is left.
AllSettled(waiting) == waiting = {}

\* fetchAllData(): the eight fetchers are called one after the other, each up to
\* its await; the call then waits for the promises of those that did not return
\* at once (a dropped fetcher's promise is already fulfilled).
FetchAllData ==
    LET waiting == {d \in Domains : ~Dropped(d)}
    IN  /\ FetchEach(Domains)
        /\ allCalls' = allCalls + 1
        /\ IF AllSettled(waiting)
           THEN /\ allCompleted' = allCompleted + 1
                /\ orphaned' = orphaned \cup waiting
                /\ UNCHANGED allWaits
           ELSE /\ allWaits' = Append(allWaits, waiting)
                /\ UNCHANGED <<allCompleted, orphaned>>
        /\ UNCHANGED <<cpuHistory, memoryHistory, diskHistory, networkHistory, now,
                       calls, issued, escaped, buffer, pushes, mounted, searchQuery,
                       viewMode, sortBy, sortOrder, timerVars, killVars>>
        /\ Rerender

\* The try block of domain d's fetcher run on a resolved value at clock reading t.
Try(d, data, t) ==
    CASE d = "cpu" -> CpuTry(data, cpuHistory, t)
      [] d = "memory" -> MemoryTry(data, memoryHistory, t)
      [] d = "disk" -> DiskTry(data, diskHistory, t)
      [] d = "network" -> NetworkTry(data, networkHistory, t)
      [] OTHER -> [hist |-> <<>>, thrown |-> NoThrow]

\* The indices of the suspended fetchAllData calls that resume when the fetcher
\* of domain d has run to its end.
Resumed(d) == {i \in DOMAIN allWaits : AllSettled(allWaits[i] \ {d})}

RECURSIVE Keep(_, _)
\* The sequence seq without the items at the indices in drop.
Keep(seq, drop) ==
    IF seq = <<>> THEN <<>>
    ELSE LET rest == Keep(SubSeq(seq, 1, Len(seq) - 1), drop)
         IN  IF Len(seq) \in drop THEN rest ELSE Append(rest, seq[Len(seq)])

\* The outstanding calls of a domain once the k-th of them (in the order issued)
\* has been settled and its reply applied: the calls issued before it have been
\* overtaken, and its reply is stale if it had been overtaken itself.
AfterSettled(r, k) ==
    [overtaken |-> [i \in 1..(Len(r.overtaken) - 1) |->
                        IF i < k THEN TRUE ELSE r.overtaken[i + 1]],
     stale |-> r.stale \/ r.overtaken[k]]

\* The backend settles an invoke() of domain d with `reply` while the clock
\* reads t: the fetcher resumes after its await and runs to its end (try, catch,
\* finally) without interruption, and so does every fetchAllData call that was
\* waiting for this fetcher alone.
Settle(d, reply, t) ==
    /\ inflight[d] > 0
    /\ LET try == IF reply.st = "resolved" THEN Try(d, reply.value, t)
                  ELSE [hist |-> <<>>, thrown |-> reply.value]
           ran == reply.st = "resolved" /\ d \in HistoryDomains
       IN  /\ info' = [info EXCEPT ![d] = AfterReply(@, reply, try.thrown)]
           /\ cpuHistory' = IF ran /\ d = "cpu" THEN try.hist ELSE cpuHistory
           /\ memoryHistory' = IF ran /\ d = "memory" THEN try.hist ELSE memoryHistory
           /\ diskHistory' = IF ran /\ d = "disk" THEN try.hist ELSE diskHistory
           /\ networkHistory' = IF ran /\ d = "network" THEN try.hist ELSE networkHistory
           /\ fetchLocks' = [fetchLocks EXCEPT ![d] = Release(d, try.thrown)]
           /\ now' = IF ran THEN t ELSE now
           /\ escaped' = (escaped \/ (try.thrown # NoThrow /\ Catch(try.thrown).uncaught))
    /\ inflight' = [inflight EXCEPT ![d] = @ - 1]
    /\ \E k \in DOMAIN requests[d].overtaken :
           requests' = [requests EXCEPT ![d] = AfterSettled(@, k)]
    /\ allWaits' = Keep([i \in DOMAIN allWaits |-> allWaits[i] \ {d}], Resumed(d))
    /\ allCompleted' = allCompleted + Cardinality(Resumed(d))
    /\ orphaned' = (orphaned \ {d}) \cup
                   UNION {allWaits[i] \ {d} : i \in Resumed(d)}
    /\ UNCHANGED <<calls, issued, allCalls, buffer, pushes, mounted, searchQuery,
                   viewMode, sortBy, sortOrder, timerVars, killVars>>
    /\ Rerender

\* The replies the backend can give to a request of domain d.
Replies(d) == {Resolved(v) : v \in Responses(d)} \cup {Rejected(e) : e \in Reasons}

\* The views' timers call the fetchers, the backend settles the requests, and the
\* clock may have advanced by the time a reply is applied.
Next ==
    \/ \E d \in Domains : calls < MaxCalls /\ Refresh(d)
    \/ \E d \in Domains : \E reply \in Replies(d) :
           \E t \in {now, now + 1} : t <= MaxNow /\ Settle(d, reply, t)

Spec == Init /\ [][Next]_vars

\* ----------------------------------------------- the store used through fetchAllData

\* A reply of the shape the backend contract gives for domain d.
Typical(d) ==
    CASE d = "cpu" -> CpuSnap(Num(10), Arr(<<Core(Num(10))>>))
      [] d = "memory" -> MemSnap(Num(8), Num(4), Num(0), Num(0))
      [] d = "disk" -> DiskSnap(Arr(<<Disk(Num(5), Num(7)), Disk(Num(1), Undefined)>>))
      [] d = "network" -> NetSnap(Num(100), Undefined)
      [] OTHER -> PlainSnap(1)

\* In SpecAll the backend may answer a disk request in every way it can and
\* answers the other domains with their typical reply.
AllReplies(d) ==
    IF d = "disk"
    THEN {Resolved(v) : v \in Responses(d)} \cup {Rejected(Str("backend down"))}
    ELSE {Resolved(Typical(d))}

\* fetchAllData is called while the processes view is mounted, whose timer calls
\* fetchProcessInfo; the clock stands still.
NextAll ==
    \/ allCalls < MaxAll /\ FetchAllData
    \/ \E d \in {"process"} : calls < MaxDirect /\ Refresh(d)
    \/ \E d \in Domains : \E reply \in AllReplies(d) : Settle(d, reply, now)

SpecAll == Init /\ [][NextAll]_vars

\* ------------------------------------------------- one domain polled for a long time

\* No domain other than d has been refreshed.
Alone(d) ==
    \A e \in Domains \ {d} :
        inflight[e] = 0 /\ info[e].data = JSNull /\ info[e].error = JSNull

LongReplies(d) == {Resolved(Typical(d)), Rejected(Str("backend down"))}

\* One view is mounted and its timer polls one history domain; the clock
\* advances between any two replies.
NextLong ==
    \/ \E d \in HistoryDomains : Alone(d) /\ calls < MaxLong /\ Refresh(d)
    \/ \E d \in HistoryDomains : \E reply \in LongReplies(d) : Settle(d, reply, now + 1)

SpecLong == Init /\ [][NextLong]_vars

\* ----------------------------------------------------- a history buffer on its own

PushValues == {Num(1), Num(2), NaN, Infinity, NegInfinity}

\* pushHistory(buffer, value) on a buffer that starts empty.  The values pushed
\* are free for the first MaxFree pushes and repeat with that period afterwards.
Push(value) ==
    /\ Len(pushes) < MaxPushes
    /\ Len(pushes) >= MaxFree => value = pushes[Len(pushes) + 1 - MaxFree]
    /\ buffer' = pushHistory(buffer, value)
    /\ pushes' = Append(pushes, value)
    /\ UNCHANGED <<storeVars, viewVars, timerVars, killVars>>

NextPush == \E value \in PushValues : Push(value)

SpecPush == Init /\ [][NextPush]_vars

\* ------------------------------------------------------------ the memory domain

\* get_memory_info replies: totals that are positive, zero and absent, and a
\* used amount that is absent.
MemoryResponses ==
    {MemSnap(Num(8), Num(4), Num(0), Num(0)),
     MemSnap(Num(4), Num(1), Num(2), Num(2)),
     MemSnap(Num(0), Num(0), Undefined, Undefined),
     MemSnap(Undefined, Num(4), Num(8), Undefined),
     MemSnap(Num(8), JSNull, Num(4), Num(3))}

\* The memory view polls the backend and every request succeeds.
NextMemory ==
    \/ calls < MaxMemory /\ Refresh("memory")
    \/ \E v \in MemoryResponses : Settle("memory", Resolved(v), now)

SpecMemory == Init /\ [][NextMemory]_vars

\* --------------------------------------------------------------- the cpu domain

\* get_cpu_info replies the fetcher can use: one core, two cores, a core
\* without a usage, and no core list.
CpuResponses ==
    {CpuSnap(Num(10), Arr(<<Core(Num(10))>>)),
     CpuSnap(Num(30), Arr(<<Core(Num(20)), Core(Num(40))>>)),
     CpuSnap(Num(50), Arr(<<Core(Undefined)>>)),
     CpuSnap(Undefined, Undefined)}

\* The cpu view polls the backend; a request succeeds with a usable reply or is
\* rejected, and the clock advances between any two replies.
NextCpu ==
    \/ calls < MaxCpu /\ Refresh("cpu")
    \/ \E v \in CpuResponses : Settle("cpu", Resolved(v), now + 1)
    \/ Settle("cpu", Rejected(Str("backend down")), now)

SpecCpu == Init /\ [][NextCpu]_vars

\* -------------------------------------------------------------- the disk domain

\* get_disk_info replies: disks with and without the byte counts, an empty
\* list, and no list.
DiskResponses ==
    {DiskSnap(Arr(<<Disk(Num(5), Num(7)), Disk(Num(1), Undefined)>>)),
     DiskSnap(Arr(<<Disk(Undefined, Num(2)), Disk(Num(0), Num(3)), Disk(Num(4), JSNull)>>)),
     DiskSnap(Arr(<<>>)),
     DiskSnap(Undefined),
     DiskSnap(JSNull)}

\* The disk view polls the backend and every request succeeds.
NextDisk ==
    \/ calls < MaxDisk /\ Refresh("disk")
    \/ \E v \in DiskResponses : Settle("disk", Resolved(v), now)

SpecDisk == Init /\ [][NextDisk]_vars

\* -------------------------------------------------------- requests that are rejected

\* Rejection reasons of every shape: strings (the backend's Err(String)), Error
\* objects with and without a message, an object without a message, and nothing.
FailReasons == {Str("backend down"), Str(""), ErrorObj("timeout"), ErrorObj(""),
                PlainObj, JSNull, Undefined}

\* The views' timers call the fetchers and the backend rejects every request.
NextFail ==
    \/ \E d \in Domains : calls < MaxFail /\ Refresh(d)
    \/ \E d \in Domains : \E e \in FailReasons : Settle(d, Rejected(e), now)

SpecFail == Init /\ [][NextFail]_vars

\* --------------------------------------------------------- the views and their timers

\* The views that poll the store.
Views == {"dashboard", "cpu", "memory", "gpu", "disk", "network", "processes", "sensors"}

\* The domain a view other than the dashboard shows.
ViewDomain(view) == IF view = "processes" THEN "process" ELSE view

\* The domains the interval timer of the dashboard refreshes.
DashboardDomains == {"cpu", "memory", "disk", "network", "gpu", "system"}

\* The fetchers onMount of a view calls itself.
Immediate(view) ==
    IF view \in {"dashboard", "sensors"} THEN {} ELSE {ViewDomain(view)}

\* The setTimeout calls of a view's onMount: the domains each callback fetches.
Timeouts(view) ==
    CASE view = "dashboard" -> {{d} : d \in DashboardDomains}
      [] view = "sensors" -> {{"sensors"}}
      [] OTHER -> {}

\* The domains the setInterval callback of a view fetches.
IntervalDomains(view) ==
    IF view = "dashboard" THEN DashboardDomains ELSE {ViewDomain(view)}

\* A timer set by the onMount of the component `view` that was mounted as the
\* mount-th component.
Timer(view, mount, kind, domains) ==
    [view |-> view, mount |-> mount, kind |-> kind, domains |-> domains]

\* The kinds of timer that the cleanup function returned by a view's onMount
\* clears: the interval, and in the sensors view the initial timeout too.
CleanupClears(view) ==
    IF view = "sensors" THEN {"interval", "timeout"} ELSE {"interval"}

\* The component that set timer tm is still mounted.
Live(tm) == tm.view \in mounted /\ tm.mount = mounts

\* The fetchers the callback of timer tm calls: the interval callback of the
\* sensors view calls none once its `mounted` flag is false.
Callback(tm) ==
    IF tm.view = "sensors" /\ tm.kind = "interval" /\ ~Live(tm) THEN {} ELSE tm.domains

\* A page is navigated to: its component is mounted and onMount runs, which
\* calls fetchers and sets timers.  The router shows one page at a time.
MountView(view) ==
    /\ mounted = {}
    /\ mounted' = {view}
    /\ mounts' = mounts + 1
    /\ timers' = timers
                    \cup {Timer(view, mounts + 1, "timeout", S) : S \in Timeouts(view)}
                    \cup {Timer(view, mounts + 1, "interval", IntervalDomains(view))}
    /\ FetchEach(Immediate(view))
    /\ UNCHANGED <<searchQuery, viewMode, sortBy, sortOrder>>
    /\ Rerender
    /\ UNCHANGED <<cpuHistory, memoryHistory, diskHistory, networkHistory, allWaits,
                   now, calls, issued, allCalls, allCompleted, orphaned, escaped,
                   buffer, pushes, killVars>>

\* The page is navigated away from: the component is destroyed and the cleanup
\* function that its onMount returned runs.
Teardown(view) ==
    /\ view \in mounted
    /\ mounted' = mounted \ {view}
    /\ timers' = {tm \in timers : ~(Live(tm) /\ tm.kind \in CleanupClears(view))}
    /\ UNCHANGED <<storeVars, buffer, pushes, searchQuery, viewMode, sortBy, sortOrder,
                   mounts, killVars>>
    /\ Rerender

\* Timer tm fires and its callback runs; a timeout fires once.  (Whether the
\* firing is counted in `calls` is left to the specification.)
Fire(tm) ==
    /\ tm \in timers
    /\ timers' = IF tm.kind = "timeout" THEN timers \ {tm} ELSE timers
    /\ FetchEach(Callback(tm))
    /\ UNCHANGED <<mounted, searchQuery, viewMode, sortBy, sortOrder, mounts>>
    /\ Rerender
    /\ UNCHANGED <<cpuHistory, memoryHistory, diskHistory, networkHistory, allWaits,
                   now, issued, allCalls, allCompleted, orphaned, escaped,
                   buffer, pushes, killVars>>

\* In SpecTimers the backend rejects any request, and answers the requests of
\* the domains that keep no history with their typical reply (a list of one
\* process for get_processes).
TimerReplies(d) ==
    {Rejected(Str("backend down"))} \cup
        CASE d = "process" ->
                 {Resolved(ProcSnap(<<Process(Num(1), JSNull, Text(<<"a">>), JSNull,
                                              Num(0), Num(0), JSNull)>>))}
          [] d \in PlainDomains \ {"process"} -> {Resolved(Typical(d))}
          [] OTHER -> {}

\* The user goes from page to page while the timers of the pages fire and the
\* backend answers.
NextTimers ==
    \/ \E view \in Views : mounts < MaxMounts /\ MountView(view)
    \/ \E view \in Views : Teardown(view)
    \/ \E tm \in timers : calls < MaxFires /\ Fire(tm) /\ calls' = calls + 1
    \/ \E d \in Domains : \E reply \in TimerReplies(d) : Settle(d, reply, now)

SpecTimers == Init /\ [][NextTimers]_vars

\* ------------------------------------------------------ the processes view in use

Pids == {1, 2, 3}

\* The process with the given pid and parent_pid as the backend reports it.  The
\* three processes differ in every sort key except cpu_usage, where two tie;
\* their names and user ids differ in case, one status is a string, one an
\* object and one is missing, and one user id is null.
Proc(pid, parent_pid) ==
    CASE pid = 1 -> Process(Num(1), parent_pid, Text(<<"a", "b">>), Text(<<"b">>),
                            Num(50), Num(10), JSNull)
      [] pid = 2 -> Process(Num(2), parent_pid, Text(<<"B", "a">>),
                            StatusObj(Text(<<"a">>)), Num(50), Num(30),
                            Text(<<"c", "1">>))
      [] OTHER -> Process(Num(3), parent_pid, Text(<<"C">>), JSNull,
                          Num(0), Num(20), Text(<<"B">>))

\* parent_pid as reported: none, or a pid (of a process in the list or not, its
\* own included).
Parents == {JSNull} \cup {Num(pid) : pid \in Pids}

\* The orders in which the backend lists the processes.
Orders == {<<>>, <<1>>, <<2, 1>>, <<3, 2>>, <<1, 3>>, <<3, 1, 2>>}

\* The lists of processes the backend reports: in each of the orders, with every
\* assignment of parents.
ProcessLists ==
    UNION {{[i \in DOMAIN order |-> Proc(order[i], parents[i])] :
               parents \in [DOMAIN order -> Parents]} : order \in Orders}

\* What the user may type into the search box.
Queries == {Text(<<>>), Text(<<"C">>), Text(<<"1">>)}

Columns == {"pid", "name", "cpu_usage", "memory_bytes", "status", "user"}

\* The replies to get_processes: the first snapshot is any of the lists, and
\* the process table stays as it is from then on; any request may be rejected.
ViewReplies ==
    {Rejected(Str("backend down"))} \cup
        IF info["process"].data = JSNull
        THEN {Resolved(ProcSnap(list)) : list \in ProcessLists}
        ELSE {Resolved(info["process"].data)}

\* The template calls getProcesses() again, after an event of the view changed
\* what it reads.
Render ==
    /\ info' = [info EXCEPT !["process"].data = DataAfterGetProcesses(@)]
    /\ Rerender

\* onMount of the processes view: fetchProcessInfo is called and the poll timer
\* started; the template renders.
Mount == MountView("processes")

\* The poll timer of the processes view fires: fetchProcessInfo is called.
Poll ==
    \E tm \in timers :
        tm.view = "processes" /\ tm.kind = "interval" /\ Fire(tm) /\ UNCHANGED calls

\* A sortColumn that keeps the direction when the key changes.
sortColumnKeepsOrder(column) ==
    /\ "processes" \in mounted
    /\ IF sortBy = column
       THEN /\ sortOrder' = IF sortOrder = "asc" THEN "desc" ELSE "asc"
            /\ UNCHANGED sortBy
       ELSE /\ sortBy' = column
            /\ UNCHANGED sortOrder
    /\ UNCHANGED <<mounted, searchQuery, viewMode>>
    /\ Render
    /\ UNCHANGED <<fetchLocks, cpuHistory, memoryHistory, diskHistory, networkHistory,
                   inflight, requests, allWaits, now, calls, issued, allCalls,
                   allCompleted, orphaned, escaped, buffer, pushes, timerVars, killVars>>

\* sortColumn(column), on a click on a column header.
sortColumn(column) ==
    /\ "processes" \in mounted
    /\ IF sortBy = column
       THEN /\ sortOrder' = IF sortOrder = "asc" THEN "desc" ELSE "asc"
            /\ UNCHANGED sortBy
       ELSE /\ sortBy' = column
            /\ sortOrder' = "desc"
    /\ UNCHANGED <<mounted, searchQuery, viewMode>>
    /\ Render
    /\ UNCHANGED <<fetchLocks, cpuHistory, memoryHistory, diskHistory, networkHistory,
                   inflight, requests, allWaits, now, calls, issued, allCalls,
                   allCompleted, orphaned, escaped, buffer, pushes, timerVars, killVars>>

\* A click on the flat or the tree button.
SetViewMode(mode) ==
    /\ "processes" \in mounted
    /\ viewMode' = mode
    /\ UNCHANGED <<mounted, searchQuery, sortBy, sortOrder>>
    /\ Render
    /\ UNCHANGED <<fetchLocks, cpuHistory, memoryHistory, diskHistory, networkHistory,
                   inflight, requests, allWaits, now, calls, issued, allCalls,
                   allCompleted, orphaned, escaped, buffer, pushes, timerVars, killVars>>

\* The user edits the search box.
Search(query) ==
    /\ "processes" \in mounted
    /\ searchQuery' = query
    /\ UNCHANGED <<mounted, viewMode, sortBy, sortOrder>>
    /\ Render
    /\ UNCHANGED <<fetchLocks, cpuHistory, memoryHistory, diskHistory, networkHistory,
                   inflight, requests, allWaits, now, calls, issued, allCalls,
                   allCompleted, orphaned, escaped, buffer, pushes, timerVars, killVars>>

\* The processes view is mounted and used while its timer polls the backend.
NextView ==
    \/ Mount
    \/ Poll
    \/ \E reply \in ViewReplies : Settle("process", reply, now)
    \/ \E column \in Columns : sortColumn(column)
    \/ \E mode \in {"flat", "tree"} : SetViewMode(mode)
    \/ \E query \in Queries : Search(query)

SpecView == Init /\ [][NextView]_vars

\* ------------------------------------------------------------- killing a process

\* Number of kill_process requests the user sends.
MaxKills == 2

\* killProcess(pid, force) up to its await: invoke("kill_process") is called.
killProcess(pid, force) ==
    /\ "processes" \in mounted
    /\ kills' = Append(kills, [pid |-> pid, force |-> force, st |-> "pending"])
    /\ UNCHANGED <<storeVars, buffer, pushes, viewVars, timerVars, alerts>>

\* A finally block in place of the call in the try block: the refresh is
\* triggered however the request ended.
AfterKillAlways(ok) == {"process"}

\* The fetchers killProcess calls after its await: monitor.fetchProcessInfo()
\* when the request succeeded, none from the catch block.
AfterKill(ok) == IF ok THEN {"process"} ELSE {}

\* The backend settles the k-th kill_process request, with success (ok) or
\* with a failure: killProcess resumes after its await and runs to its end.
KillSettled(k, ok) ==
    /\ k \in DOMAIN kills
    /\ kills[k].st = "pending"
    /\ kills' = [kills EXCEPT ![k].st = IF ok THEN "ok" ELSE "failed"]
    /\ alerts' = IF ok THEN alerts ELSE alerts + 1
    /\ FetchEach(AfterKill(ok))
    /\ UNCHANGED <<mounted, searchQuery, viewMode, sortBy, sortOrder, timerVars>>
    /\ Rerender
    /\ UNCHANGED <<cpuHistory, memoryHistory, diskHistory, networkHistory, allWaits,
                   now, calls, issued, allCalls, allCompleted, orphaned, escaped,
                   buffer, pushes>>

\* The processes view is mounted and polls the backend while the user kills
\* processes.
NextKill ==
    \/ Mount
    \/ Poll
    \/ \E reply \in TimerReplies("process") : Settle("process", reply, now)
    \/ \E pid \in Pids : \E force \in BOOLEAN :
           Len(kills) < MaxKills /\ killProcess(pid, force)
    \/ \E k \in DOMAIN kills : \E ok \in BOOLEAN : KillSettled(k, ok)

SpecKill == Init /\ [][NextKill]_vars

\* ------------------------------------------------------------------ claims

\* The fetcher of domain d has just run to its end (its invoke was settled).
Ended(d) == inflight'[d] < inflight[d]

\* A value the fetcher of domain d can use: an object whose listed cores or
\* disks are objects.
Usable(d, v) ==
    /\ v.kind = "object"
    /\ d = "cpu" /\ IsArray(v.cores) =>
           \A i \in DOMAIN v.cores.items : ~ReadThrows(v.cores.items[i])
    /\ d = "disk" /\ IsArray(v.disks) =>
           \A i \in DOMAIN v.disks.items : ~ReadThrows(v.disks.items[i])

\* C1: at most one backend request per domain is outstanding at any time, and a
\* fetcher called while its domain's in-flight flag is set issues no request.
C1_AtMostOneInFlight ==
    /\ [](\A d \in Domains : inflight[d] <= 1)
    /\ [][\A d \in Domains : fetchLocks[d] => inflight'[d] <= inflight[d]]_vars

\* Two fetcher calls were made, the second while the first's request was
\* outstanding, and one request was issued.
C1_Witness == calls = 2 /\ issued = 1 /\ inflight["cpu"] = 1

\* C2: when the request of a refresh settles, with success or with failure, the
\* fetcher ends with loading = false and the in-flight flag cleared; whenever no
\* request of a domain is outstanding, a call of its fetcher issues a new one.
C2_SettledRefreshUnlocks ==
    /\ [][\A d \in Domains : Ended(d) => ~info'[d].loading /\ ~fetchLocks'[d]]_vars
    /\ [](\A d \in Domains :
            inflight[d] = 0 => ENABLED (Refresh(d) /\ inflight'[d] = 1))

\* The memory fetcher failed once and its second call has issued a second
\* request.
C2_Witness ==
    /\ issued = 2 /\ inflight["memory"] = 1
    /\ info["memory"].data = JSNull /\ memoryHistory.timestamps = <<>>
    /\ \A e \in Domains \ {"memory"} : info[e].data = JSNull /\ info[e].error = JSNull
                                        /\ inflight[e] = 0

\* C3: a refresh that ends with error set leaves the domain's data as it was
\* before that refresh.
C3_FailedRefreshKeepsData ==
    [][\A d \in Domains :
         Ended(d) /\ info'[d].error # JSNull => info'[d].data = info[d].data]_vars

\* The backend call behind `reply` failed: invoke rejected, or resolved with a
\* value the fetcher cannot use.
Failed(d, reply) == reply.st = "rejected" \/ ~Usable(d, reply.value)

\* Every domain other than d has the same DomainState and in-flight flag after
\* the step as before.
OthersUntouched(d) ==
    \A e \in Domains \ {d} : info'[e] = info[e] /\ fetchLocks'[e] = fetchLocks[e]

\* C4: of the backend calls one fetchAllData is waiting for, a call that fails
\* leaves its domain with error set and data unchanged, a call that succeeds
\* leaves its domain with data equal to the response and error null, and neither
\* changes the state of another domain.
C4_ErrorIsolation ==
    [][\A d \in Domains : \A reply \in AllReplies(d) :
         (\E i \in DOMAIN allWaits : d \in allWaits[i]) /\ Settle(d, reply, now) =>
             /\ OthersUntouched(d)
             /\ IF Failed(d, reply)
                THEN info'[d].error # JSNull /\ info'[d].data = info[d].data
                ELSE info'[d].data = reply.value /\ info'[d].error = JSNull]_vars

\* C5 as claimed: when fetchAllData completes, no domain is loading.
C5_NoneLoadingAtCompletion ==
    [][allCompleted' > allCompleted => \A d \in Domains : ~info'[d].loading]_vars

\* C5 as amended: fetchAllData calls the fetcher of every domain (after the call
\* every domain has a request outstanding, its own or an earlier one), and it
\* completes only after every request that it issued itself has settled.
C5_CompletesAfterOwnRequests ==
    /\ [](orphaned = {})
    /\ [][allCalls' > allCalls =>
            \A d \in Domains : fetchLocks'[d] /\ inflight'[d] = 1]_vars

\* A fetchAllData call has completed while the request of an earlier direct
\* fetchProcessInfo call is still outstanding.
C5_Witness ==
    /\ allCompleted = 1 /\ calls = 1 /\ info["process"].loading
    /\ \A d \in Domains \ {"process"} : ~info[d].loading /\ info[d].data # JSNull

HistoryBuffers ==
    {cpuHistory.timestamps, cpuHistory.global,
     memoryHistory.timestamps, memoryHistory.ram_used, memoryHistory.swap_used,
     diskHistory.timestamps, diskHistory.read, diskHistory.write,
     networkHistory.timestamps, networkHistory.download, networkHistory.upload}
        \cup {cpuHistory.cores[k] : k \in DOMAIN cpuHistory.cores}

\* C6: every history buffer of the store has at most MAX_HISTORY entries.
C6_HistoryBounded == \A b \in HistoryBuffers : Len(b) <= MAX_HISTORY

\* The CPU buffers are full and their oldest entries have been evicted.
C6_Witness ==
    /\ Len(cpuHistory.timestamps) = MAX_HISTORY /\ cpuHistory.timestamps[1] > 2
    /\ Len(cpuHistory.global) = MAX_HISTORY
    /\ Len(cpuHistory.cores[0]) = MAX_HISTORY

Min(a, b) == IF a < b THEN a ELSE b

\* C7: after N pushes of finite values into an empty buffer, the buffer holds
\* the last min(N, MAX_HISTORY) pushed values in the order pushed.
C7_LastValuesInOrder ==
    (\A i \in DOMAIN pushes : IsFinite(pushes[i])) =>
        /\ Len(buffer) = Min(Len(pushes), MAX_HISTORY)
        /\ \A i \in DOMAIN buffer :
               buffer[i] = pushes[Len(pushes) - Len(buffer) + i].n

\* More than MAX_HISTORY finite values, not all equal, have been pushed.
C7_Witness ==
    /\ Len(pushes) > MAX_HISTORY
    /\ \A i \in DOMAIN pushes : IsFinite(pushes[i])
    /\ pushes[1] # pushes[2]

\* C8: the timestamp buffer of cpu, memory, disk and network is as long as each
\* metric buffer of the domain (the fetchers apply a reply in one step, so no
\* state of the model is part-way through one).
C8_TimestampsInLockstep ==
    /\ Len(cpuHistory.timestamps) = Len(cpuHistory.global)
    /\ Len(memoryHistory.timestamps) = Len(memoryHistory.ram_used)
    /\ Len(memoryHistory.timestamps) = Len(memoryHistory.swap_used)
    /\ Len(diskHistory.timestamps) = Len(diskHistory.read)
    /\ Len(diskHistory.timestamps) = Len(diskHistory.write)
    /\ Len(networkHistory.timestamps) = Len(networkHistory.download)
    /\ Len(networkHistory.timestamps) = Len(networkHistory.upload)

\* C9: no fetcher throws to its caller; a failed backend call (rejected, or
\* resolved with a value the fetcher cannot use) ends the fetcher normally, with
\* the failure recorded in the domain's error and no other domain changed.
C9_FailureStaysInDomain ==
    /\ [](~escaped)
    /\ [][\A d \in Domains : \A reply \in Replies(d) : \A t \in {now, now + 1} :
            Settle(d, reply, t) /\ Failed(d, reply) =>
                /\ info'[d].error # JSNull
                /\ ~info'[d].loading /\ ~fetchLocks'[d]
                /\ OthersUntouched(d)]_vars

\* A reply the cpu fetcher cannot use has been caught and recorded.
C9_Witness ==
    /\ info["cpu"].error = Str(ErrorText(TypeError)) /\ ~info["cpu"].loading
    /\ ~escaped

\* C10: when the backend call of a refresh succeeds, the fetcher ends with data
\* equal to the response and error null, whatever data and error were before.
C10_SuccessReplacesData ==
    [][\A d \in Domains : \A v \in Responses(d) : \A t \in {now, now + 1} :
         Usable(d, v) /\ Settle(d, Resolved(v), t) =>
             info'[d].data = v /\ info'[d].error = JSNull]_vars

\* Two cpu requests have settled and one of them appended to the history: the
\* first was rejected and left an error, the second succeeded and the error is
\* gone.
C10_Witness ==
    /\ issued = 2 /\ inflight["cpu"] = 0
    /\ Len(cpuHistory.timestamps) = 1
    /\ info["cpu"].error = JSNull /\ info["cpu"].data \in Responses("cpu") \ {JSNull}
    /\ \A e \in Domains \ {"cpu"} : info[e].data = JSNull /\ info[e].error = JSNull
                                     /\ inflight[e] = 0

\* C11 as claimed, its last clause: a rejection whose reason is a string leaves
\* exactly that string in the domain's error.
C11_StringReasonVerbatim ==
    [][\A d \in Domains : \A e \in FailReasons :
         e.kind = "string" /\ Settle(d, Rejected(e), now) => info'[d].error = e]_vars

\* C11 as amended: a rejected request leaves in error the reason's message when
\* it has a non-empty one, otherwise the reason's string form when that is not
\* empty, otherwise "Unknown error"; a non-empty string reason is left as it is
\* and an empty string reason leaves "Unknown error".
C11_ErrorFromReason ==
    [][\A d \in Domains : \A e \in FailReasons :
         Settle(d, Rejected(e), now) =>
             info'[d].error =
                 CASE e.kind = "error" /\ e.message # "" -> Str(e.message)
                   [] e.kind = "error" -> Str("Error")
                   [] e.kind = "string" /\ e.s # "" -> e
                   [] e.kind = "object" -> Str("[object Object]")
                   [] OTHER -> Str("Unknown error")]_vars

\* One request was rejected with an Error object and left its message, another
\* with an empty string and left "Unknown error".
C11_Witness ==
    /\ info["system"].error = Str("timeout")
    /\ info["gpu"].error = Str("Unknown error")
    /\ inflight["system"] = 0 /\ inflight["gpu"] = 0

\* The processes view is mounted and shows the snapshot in the given mode.
Shows(mode) ==
    /\ "processes" \in mounted /\ viewMode = mode
    /\ info["process"].data # JSNull /\ info["process"].error = JSNull

\* The snapshot of the store, and its elements that pass the filter.
Snapshot == info["process"].data.processes.items

FilteredSet == Filtered(info["process"].data, searchQuery)

\* The pids of the nodes of a sequence.
PidsOf(nodes) == {nodes[i].pid : i \in DOMAIN nodes}

\* The snapshot lists the processes with the pids of `order`, in that order,
\* with the parents of `parents`, and nothing is typed into the search box.
ShowsList(order, parents) ==
    /\ Snapshot = [i \in DOMAIN order |-> Proc(order[i], parents[i])]
    /\ searchQuery = Text(<<>>)

\* C12: in tree mode, a node of the output whose parent_pid is the pid of no
\* process of the filtered set has depth 0, and every other node has the depth
\* of its parent plus 1; the chain 1 <- 2 <- 3 gives [1, 2, 3] with depths
\* [0, 1, 2].
C12_TreeDepth ==
    Shows("tree") =>
        /\ \A i \in DOMAIN processes :
               IF processes[i].parent_pid \notin PidsOf(FilteredSet)
               THEN processes[i].depth = 0
               ELSE \E j \in DOMAIN processes :
                        /\ processes[j].pid = processes[i].parent_pid
                        /\ processes[i].depth = processes[j].depth + 1
        /\ ShowsList(<<3, 1, 2>>, <<Num(2), JSNull, Num(1)>>) =>
               /\ [i \in DOMAIN processes |-> processes[i].pid] = <<Num(1), Num(2), Num(3)>>
               /\ [i \in DOMAIN processes |-> processes[i].depth] = <<0, 1, 2>>

\* The chain 1 <- 2 <- 3 is shown as a tree.
C12_Witness ==
    /\ Shows("tree") /\ ShowsList(<<3, 1, 2>>, <<Num(2), JSNull, Num(1)>>)
    /\ Len(processes) = 3 /\ processes[3].depth = 2

\* C13: in tree mode, a process of the filtered set whose parent_pid is null or
\* is the pid of no process of the filtered set is in the output with depth 0.
C13_OrphanPromotion ==
    Shows("tree") =>
        \A k \in DOMAIN FilteredSet :
            FilteredSet[k].parent_pid \notin PidsOf(FilteredSet) =>
                \E i \in DOMAIN processes :
                    /\ processes[i].pid = FilteredSet[k].pid
                    /\ processes[i].depth = 0

\* Process 2 names process 3 as its parent and process 3 is not in the list:
\* process 2 is shown at depth 0, with its child 1 below it.
C13_Witness ==
    /\ Shows("tree") /\ ShowsList(<<2, 1>>, <<Num(3), Num(2)>>)
    /\ Len(processes) = 2
    /\ processes[1].pid = Num(2) /\ processes[1].depth = 0
    /\ processes[2].pid = Num(1) /\ processes[2].depth = 1

\* C14: in flat mode the output is a permutation of the filtered list, ordered
\* by the selected sort key as the comparator reads it (name in lower case,
\* status and user normalized): non-decreasing when ascending, non-increasing
\* when descending; pids 3, 1, 2 sorted by pid give 1, 2, 3 and 3, 2, 1.
C14_FlatSorted ==
    Shows("flat") =>
        /\ Len(processes) = Len(FilteredSet)
        /\ \A k \in DOMAIN FilteredSet : \E i \in DOMAIN processes :
               processes[i] = FilteredSet[k]
        /\ \A i, j \in DOMAIN processes :
               i < j =>
                   IF sortOrder = "asc"
                   THEN ~Less(SortValue(processes[j], sortBy), SortValue(processes[i], sortBy))
                   ELSE ~Less(SortValue(processes[i], sortBy), SortValue(processes[j], sortBy))
        /\ ShowsList(<<3, 1, 2>>, <<JSNull, JSNull, JSNull>>) /\ sortBy = "pid" =>
               [i \in DOMAIN processes |-> processes[i].pid] =
                   IF sortOrder = "asc" THEN <<Num(1), Num(2), Num(3)>>
                   ELSE <<Num(3), Num(2), Num(1)>>

\* Pids 3, 1, 2 are shown sorted by pid, ascending.
C14_Witness ==
    /\ Shows("flat") /\ ShowsList(<<3, 1, 2>>, <<JSNull, JSNull, JSNull>>)
    /\ sortBy = "pid" /\ sortOrder = "asc"
    /\ Len(processes) = 3 /\ processes[1].pid = Num(1)

\* The string s contains the string q, ignoring case.
ContainsIgnoringCase(s, q) == includes(toLowerCase(s), toLowerCase(q))

\* C15: in flat mode the output holds exactly the processes of the snapshot
\* whose name, decimal pid or user id contains the search string ignoring case;
\* with an empty search string it holds all of them.
C15_FilterSubstring ==
    Shows("flat") =>
        LET kept == {k \in DOMAIN Snapshot :
                        \/ ContainsIgnoringCase(Snapshot[k].name, searchQuery)
                        \/ ContainsIgnoringCase(toString(Snapshot[k].pid), searchQuery)
                        \/ /\ Snapshot[k].user_id.kind = "string"
                           /\ ContainsIgnoringCase(Snapshot[k].user_id, searchQuery)}
        IN  /\ PidsOf(processes) = {Snapshot[k].pid : k \in kept}
            /\ Len(processes) = Cardinality(kept)
            /\ searchQuery = Text(<<>>) => Len(processes) = Len(Snapshot)

\* The search for "C" keeps process 2 for its user id and process 3 for its
\* name, and drops process 1.
C15_Witness ==
    /\ Shows("flat") /\ searchQuery = Text(<<"C">>)
    /\ PidsOf(Snapshot) = {Num(1), Num(2), Num(3)}
    /\ PidsOf(processes) = {Num(2), Num(3)}

\* C16: building, sorting and flattening the tree never recurse deeper than the
\* number of nodes, so getProcesses returns for every list, cyclic or not.
C16_TreeTerminates ==
    "processes" \in mounted => \A i \in DOMAIN processes : processes[i] # RangeError

\* A list in which process 1 is its own parent and processes 2 and 3 name each
\* other has been rendered as a tree.
C16_Witness ==
    /\ Shows("tree") /\ ShowsList(<<3, 1, 2>>, <<Num(2), Num(1), Num(3)>>)
    /\ sortOrder = "asc"

\* C17: a step in which the view derives its display sequence and no fetcher
\* runs leaves the DomainState of every domain, the process domain's in
\* particular, as it was.
C17_DerivationReadsOnly ==
    [][inflight' = inflight /\ fetchLocks' = fetchLocks => info' = info]_vars

\* A snapshot of two or more processes is shown as a tree in ascending order
\* under a search, while the next poll is in flight.
C17_Witness ==
    /\ Shows("tree") /\ sortOrder = "asc" /\ searchQuery # Text(<<>>)
    /\ Len(Snapshot) >= 2 /\ Len(processes) >= 2
    /\ info["process"].loading

\* C18: pushHistory stores 0 for NaN, +Infinity and -Infinity, and stores a
\* finite value as it is.
C18_NonFiniteStoredAsZero ==
    [][\A value \in PushValues :
         Push(value) =>
             /\ Len(buffer') > 0
             /\ buffer'[Len(buffer')] =
                    IF value \in {NaN, Infinity, NegInfinity} THEN 0 ELSE value.n]_vars

\* NaN, -Infinity and 2 were pushed, and the buffer holds 0, 0, 2.
C18_Witness == pushes = <<NaN, NegInfinity, Num(2)>> /\ buffer = <<0, 0, 2>>

\* The sample C19 expects for `used` of `total`: the percentage when total is
\* positive (0 when used is not a number), and 0 when total is 0 or absent.
ExpectedPercent(used, total) ==
    IF total.kind = "number" /\ total.n > 0 /\ used.kind = "number"
    THEN (used.n * 100) \div total.n
    ELSE 0

\* C19: a memory refresh that succeeds appends used/total*100 to the RAM history
\* when the total is positive and 0 when the total is 0 or absent, and likewise
\* for swap; no reply object makes the derivation fail.
C19_RatioSafe ==
    [][\A v \in MemoryResponses :
         Settle("memory", Resolved(v), now) =>
             /\ info'["memory"].error = JSNull /\ info'["memory"].data = v
             /\ Len(memoryHistory'.ram_used) = Len(memoryHistory.ram_used) + 1
             /\ memoryHistory'.ram_used[Len(memoryHistory'.ram_used)] =
                    ExpectedPercent(v.used_memory, v.total_memory)
             /\ Len(memoryHistory'.swap_used) = Len(memoryHistory.swap_used) + 1
             /\ memoryHistory'.swap_used[Len(memoryHistory'.swap_used)] =
                    ExpectedPercent(v.used_swap, v.total_swap)]_vars

\* Three refreshes succeeded: one with total_memory 0 and no swap fields, one
\* with half of the memory used, one with a quarter of the memory and all of
\* the swap used.
C19_Witness ==
    /\ memoryHistory.ram_used = <<0, 50, 25>>
    /\ memoryHistory.swap_used = <<0, 0, 100>>
    /\ info["memory"].error = JSNull

\* C20: a fetcher call made while its domain's request is in flight changes
\* nothing of the store, and it is not remembered: a request is issued only in
\* a step that calls the fetcher of a domain with no request in flight, never
\* by the step that settles one.
C20_DroppedCallForgotten ==
    /\ [][\A d \in Domains :
            Refresh(d) /\ inflight[d] > 0 =>
                UNCHANGED <<fetchLocks, info, cpuHistory, memoryHistory, diskHistory,
                            networkHistory, inflight, issued>>]_vars
    /\ [][\A d \in Domains :
            inflight'[d] > inflight[d] => calls' = calls + 1 /\ inflight[d] = 0]_vars
    /\ [][\A d \in Domains : Ended(d) => inflight'[d] = 0 /\ issued' = issued]_vars

\* fetchNetworkInfo was called twice, the second call while the request of the
\* first was in flight; that request has settled and none is in flight.
C20_Witness ==
    /\ calls = 2 /\ issued = 1 /\ inflight["network"] = 0
    /\ info["network"].data # JSNull /\ ~info["network"].loading
    /\ Len(networkHistory.timestamps) = 1

\* C21 as claimed, its premise: while a request of a domain is outstanding, a
\* call of the domain's fetcher can issue a later one, whose reply may then be
\* applied before the reply to the earlier request.
C21_LaterRequestOverlaps ==
    \A d \in Domains :
        inflight[d] = 1 => ENABLED (Refresh(d) /\ inflight'[d] = 2)

\* C21 as amended: within one domain no reply is applied after the reply to a
\* request that was issued later; a request is issued only once the reply to
\* the one before it has been applied.
C21_RepliesInIssueOrder ==
    \A d \in Domains :
        /\ ~requests[d].stale
        /\ \A i \in DOMAIN requests[d].overtaken : ~requests[d].overtaken[i]

\* Two cpu requests were issued one after the other, and both replies have been
\* applied: the data is the later reply.
C21_Witness ==
    /\ issued = 2 /\ inflight["cpu"] = 0
    /\ cpuHistory.global = <<10, 30>>
    /\ info["cpu"].data = CpuSnap(Num(30), Arr(<<Core(Num(20)), Core(Num(40))>>))

\* C22: a timer fires, and its callback calls fetchers, only while the
\* component that set it is mounted: after the cleanup of a view has run, no
\* timer of that view fires, whenever the view was torn down.
C22_NoTimerAfterTeardown ==
    [][\A tm \in timers : Fire(tm) => Live(tm)]_vars

\* C23: in every state a domain is loading exactly when its in-flight flag is
\* set (which is exactly when a request of the domain is outstanding), and the
\* domain's error is null for as long as the flag is set.
C23_LoadingIffInFlight ==
    \A d \in Domains :
        /\ info[d].loading = fetchLocks[d]
        /\ fetchLocks[d] = (inflight[d] > 0)
        /\ fetchLocks[d] => info[d].error = JSNull

\* The gpu domain is being refreshed a second time, after a refresh that
\* failed, while the memory domain has ended a failed refresh.
C23_Witness ==
    /\ issued = 3 /\ fetchLocks["gpu"] /\ info["gpu"].loading
    /\ info["gpu"].data = JSNull /\ info["gpu"].error = JSNull
    /\ ~fetchLocks["memory"] /\ ~info["memory"].loading
    /\ info["memory"].error = Str("timeout")

\* The history buffers of every domain other than d are the same after the step
\* as before.
OtherHistoriesUntouched(d) ==
    /\ d # "cpu" => cpuHistory' = cpuHistory
    /\ d # "memory" => memoryHistory' = memoryHistory
    /\ d # "disk" => diskHistory' = diskHistory
    /\ d # "network" => networkHistory' = networkHistory

\* C24: a step of the refresh of domain d (the call of its fetcher, and the
\* settling of its request with a success or a failure) leaves the DomainState,
\* the history buffers and the in-flight flag of every other domain unchanged;
\* and the call of the fetcher of a domain whose flag is clear issues a request
\* whatever requests of other domains are in flight.
C24_DomainsIsolated ==
    /\ [][\A d \in Domains :
            Refresh(d) \/ inflight'[d] # inflight[d] =>
                /\ OthersUntouched(d)
                /\ OtherHistoriesUntouched(d)
                /\ \A e \in Domains \ {d} : inflight'[e] = inflight[e]]_vars
    /\ [][\A d \in Domains :
            Refresh(d) /\ ~fetchLocks[d] =>
                inflight'[d] = 1 /\ fetchLocks'[d] /\ issued' = issued + 1]_vars

\* The requests of cpu and disk are in flight at once, and a network refresh
\* has ended with a sample in its history.
C24_Witness ==
    /\ inflight["cpu"] = 1 /\ inflight["disk"] = 1 /\ issued = 3
    /\ Len(networkHistory.download) = 1 /\ info["network"].data # JSNull

\* The lengths of the timestamp buffer and of the metric buffers (per-core
\* buffers excepted) of history domain d, for the given history objects.
BufferLengths(d, cpu, memory, disk, network) ==
    CASE d = "cpu" -> <<Len(cpu.timestamps), Len(cpu.global)>>
      [] d = "memory" ->
             <<Len(memory.timestamps), Len(memory.ram_used), Len(memory.swap_used)>>
      [] d = "disk" -> <<Len(disk.timestamps), Len(disk.read), Len(disk.write)>>
      [] OTHER ->
             <<Len(network.timestamps), Len(network.download), Len(network.upload)>>

\* C25: each refresh of cpu, memory, disk or network that ends without error
\* makes the timestamp buffer and every metric buffer of its domain one longer,
\* up to MAX_HISTORY (so each has length min(S, 60) after S such refreshes); a
\* refresh that ends with error set, or is dropped, leaves their lengths as
\* they were.
C25_OneSamplePerSuccess ==
    [][\A d \in HistoryDomains :
         LET before == BufferLengths(d, cpuHistory, memoryHistory, diskHistory,
                                     networkHistory)
             after == BufferLengths(d, cpuHistory', memoryHistory', diskHistory',
                                    networkHistory')
         IN  /\ Ended(d) /\ info'[d].error = JSNull =>
                    \A i \in DOMAIN before : after[i] = Min(before[i] + 1, MAX_HISTORY)
             /\ Ended(d) /\ info'[d].error # JSNull => after = before
             /\ Refresh(d) /\ fetchLocks[d] => after = before]_vars

\* C26: every per-core history buffer is as long as the CPU timestamp buffer
\* (its sample i and timestamp i were appended in the same poll), whatever
\* cores the successive snapshots list.
C26_CoresAligned ==
    \A k \in DOMAIN cpuHistory.cores :
        Len(cpuHistory.cores[k]) = Len(cpuHistory.timestamps)

\* C27: the set of core indices that have a history buffer only grows: no step
\* removes a buffer; a successful snapshot that lists cores leaves a buffer for
\* each index it lists and for each index that had one; a buffer is created
\* only for an index that the snapshot being applied lists.
C27_CoreIndicesOnlyGrow ==
    [][LET before == DOMAIN cpuHistory.cores
           after == DOMAIN cpuHistory'.cores
           data == info'["cpu"].data
           listed == IF data.kind = "object" /\ IsArray(data.cores)
                     THEN 0..(Len(data.cores.items) - 1)
                     ELSE {}
       IN  /\ before \subseteq after
           /\ Ended("cpu") /\ info'["cpu"].error = JSNull => after = before \cup listed
           /\ after \ before \subseteq listed]_vars

\* Two cores were reported, then one core, then a refresh failed: both buffers
\* are still there, the buffer of core 1 with the one sample it got.
C27_Witness ==
    /\ DOMAIN cpuHistory.cores = {0, 1}
    /\ Len(cpuHistory.cores[0]) = 2 /\ cpuHistory.cores[1] = <<40>>
    /\ info["cpu"].error # JSNull /\ inflight["cpu"] = 0 /\ issued = 3

\* The sum over the disks of a list of the byte count `field` ("read" or
\* "written"), a disk without the count contributing 0.
RECURSIVE SumOverDisks(_, _)
SumOverDisks(items, field) ==
    IF items = <<>> THEN 0
    ELSE LET count == IF field = "read" THEN items[1].read_bytes
                      ELSE items[1].written_bytes
         IN  (IF count.kind = "number" THEN count.n ELSE 0)
                 + SumOverDisks(Tail(items), field)

\* The sample C28 expects for reply v: the sum over its disks, 0 without a list.
ExpectedTotal(v, field) ==
    IF IsArray(v.disks) THEN SumOverDisks(v.disks.items, field) ELSE 0

\* C28: a disk refresh that succeeds appends to the read history the sum of
\* read_bytes over the disks of the reply, and to the write history the sum of
\* written_bytes, a disk without the field counting 0; a reply without a disk
\* list appends 0 to both.
C28_DiskTotals ==
    [][\A v \in DiskResponses :
         Settle("disk", Resolved(v), now) =>
             /\ info'["disk"].error = JSNull /\ info'["disk"].data = v
             /\ diskHistory'.read = Append(diskHistory.read, ExpectedTotal(v, "read"))
             /\ diskHistory'.write =
                    Append(diskHistory.write, ExpectedTotal(v, "written"))]_vars

\* Three refreshes succeeded: one without a disk list, one with two disks of
\* which one lacks written_bytes, one with three disks of which one lacks
\* read_bytes and one has written_bytes null.
C28_Witness ==
    /\ diskHistory.read = <<0, 6, 4>>
    /\ diskHistory.write = <<0, 7, 5>>
    /\ info["disk"].error = JSNull

\* How often node k is in a list of node references.
Occurrences(list, k) == Cardinality({i \in DOMAIN list : list[i] = k})

\* C29: after buildProcessTree, every node of the filtered set is in exactly
\* one place: once in the roots list, or once in the children list of exactly
\* one node.
C29_EachNodeInOnePlace ==
    Shows("tree") =>
        /\ Len(tree.heap) = Len(FilteredSet)
        /\ \A k \in DOMAIN tree.heap :
               LET holders == {j \in DOMAIN tree.heap :
                                  Occurrences(tree.heap[j].children, k) > 0}
               IN  \/ /\ Occurrences(tree.roots, k) = 1
                      /\ holders = {}
                   \/ /\ Occurrences(tree.roots, k) = 0
                      /\ \E j \in holders :
                             /\ holders = {j}
                             /\ Occurrences(tree.heap[j].children, k) = 1

\* A tree was built of three processes: process 1 is the only root, and
\* processes 2 and 3 are its children.
C29_Witness ==
    /\ Shows("tree") /\ ShowsList(<<3, 1, 2>>, <<Num(1), JSNull, Num(1)>>)
    /\ tree.roots = <<2>>
    /\ Len(tree.heap[2].children) = 2

\* C30: in tree mode the output holds every process of the filtered set
\* exactly once, whatever the parent_pid values are (cyclic, a process its own
\* parent, a parent that is missing).
C30_TreeOutputIsPermutation ==
    Shows("tree") =>
        /\ Len(processes) = Len(FilteredSet)
        /\ \A k \in DOMAIN FilteredSet :
               Cardinality({i \in DOMAIN processes :
                               processes[i].pid = FilteredSet[k].pid}) = 1

\* The process with pid `a` is an ancestor of process p in the filtered set:
\* following parent_pid from p, through processes of the filtered set, leads
\* to it within `fuel` steps.
RECURSIVE IsAncestor(_, _, _)
IsAncestor(a, p, fuel) ==
    /\ fuel > 0
    /\ p.parent_pid \in PidsOf(FilteredSet)
    /\ \/ p.parent_pid = a
       \/ \E k \in DOMAIN FilteredSet :
              /\ FilteredSet[k].pid = p.parent_pid
              /\ IsAncestor(a, FilteredSet[k], fuel - 1)

\* The positions of the output that hold a descendant of the node at position i.
DescendantsAt(i) ==
    {j \in DOMAIN processes :
        j # i /\ IsAncestor(processes[i].pid, processes[j], Len(FilteredSet))}

\* C31: the tree-mode output is a pre-order traversal: a node whose parent is
\* in the filtered set comes after that parent, and the descendants of each
\* node of the output are the positions right after it, without a gap.
C31_PreOrder ==
    Shows("tree") =>
        \A i \in DOMAIN processes :
            /\ processes[i].parent_pid \in PidsOf(FilteredSet) =>
                   \E j \in 1..(i - 1) : processes[j].pid = processes[i].parent_pid
            /\ DescendantsAt(i) = (i + 1)..(i + Cardinality(DescendantsAt(i)))

\* Processes 1 and 2 are roots and process 3 is the child of process 1: the
\* output is 1, 3, 2.
C31_Witness ==
    /\ Shows("tree") /\ ShowsList(<<3, 1, 2>>, <<Num(1), JSNull, JSNull>>)
    /\ sortBy = "cpu_usage" /\ sortOrder = "desc"
    /\ [i \in DOMAIN processes |-> processes[i].pid] = <<Num(1), Num(3), Num(2)>>

\* The nodes at positions i and j of the output are siblings: both are roots
\* (their parent is not in the filtered set) or both have the same parent.
Siblings(i, j) ==
    IF processes[i].parent_pid \in PidsOf(FilteredSet)
    THEN processes[j].parent_pid = processes[i].parent_pid
    ELSE processes[j].parent_pid \notin PidsOf(FilteredSet)

\* C32: in tree mode the roots, and the children of each node, are in the
\* order of the sort key as the comparator reads it: non-decreasing when
\* ascending, non-increasing when descending; and sorting keeps every node in
\* the children list of its parent.
C32_SiblingsSorted ==
    Shows("tree") =>
        /\ \A i, j \in DOMAIN processes :
               i < j /\ Siblings(i, j) =>
                   IF sortOrder = "asc"
                   THEN ~Less(SortValue(processes[j], sortBy), SortValue(processes[i], sortBy))
                   ELSE ~Less(SortValue(processes[i], sortBy), SortValue(processes[j], sortBy))
        /\ \A k \in DOMAIN tree.heap :
               {tree.heap[k].children[c] : c \in DOMAIN tree.heap[k].children} =
                   {n \in DOMAIN tree.heap : tree.heap[n].parent_pid = tree.heap[k].pid}

\* Process 1 is the root and its children were listed as 3, 2: sorted by pid,
\* ascending, the output is 1, 2, 3.
C32_Witness ==
    /\ Shows("tree") /\ ShowsList(<<3, 1, 2>>, <<Num(1), JSNull, Num(1)>>)
    /\ sortBy = "pid" /\ sortOrder = "asc"
    /\ [i \in DOMAIN processes |-> processes[i].pid] = <<Num(1), Num(2), Num(3)>>

\* Process p of the snapshot passes the search: its name, decimal pid or user
\* id contains the search string, ignoring case.
PassesSearch(p) ==
    \/ ContainsIgnoringCase(p.name, searchQuery)
    \/ ContainsIgnoringCase(toString(p.pid), searchQuery)
    \/ p.user_id.kind = "string" /\ ContainsIgnoringCase(p.user_id, searchQuery)

\* C33: in tree mode under a search, no process that fails the search is in
\* the output, not even the parent of a process that passes; and a process
\* that passes while its parent fails is in the output at depth 0.
C33_FilterBeforeTree ==
    Shows("tree") /\ searchQuery # Text(<<>>) =>
        /\ \A i \in DOMAIN processes :
               \E k \in DOMAIN Snapshot :
                   Snapshot[k].pid = processes[i].pid /\ PassesSearch(Snapshot[k])
        /\ \A k, a \in DOMAIN Snapshot :
               /\ PassesSearch(Snapshot[k])
               /\ Snapshot[k].parent_pid = Snapshot[a].pid
               /\ ~PassesSearch(Snapshot[a])
               => \E i \in DOMAIN processes :
                      processes[i].pid = Snapshot[k].pid /\ processes[i].depth = 0

\* The search for "C" drops process 1, the parent of process 3: process 3 is
\* shown at depth 0, with its child 2 below it.
C33_Witness ==
    /\ Shows("tree") /\ searchQuery = Text(<<"C">>)
    /\ Snapshot = <<Proc(3, Num(1)), Proc(1, JSNull), Proc(2, Num(3))>>
    /\ [i \in DOMAIN processes |-> processes[i].pid] = <<Num(3), Num(2)>>
    /\ [i \in DOMAIN processes |-> processes[i].depth] = <<0, 1>>

\* C34: the step in which a kill_process request fails raises exactly one
\* alert, sends no kill request (the failed one stays failed, the others are as
\* they were), starts no get_processes request and leaves the process
\* DomainState, its in-flight flag and the other domains as they were.
C34_FailedKillOnlyAlerts ==
    [][\A k \in DOMAIN kills :
           kills[k].st = "pending" /\ kills'[k].st = "failed" =>
               /\ alerts' = alerts + 1
               /\ Len(kills') = Len(kills)
               /\ \A j \in DOMAIN kills : j # k => kills'[j] = kills[j]
               /\ kills'[k] = [kills[k] EXCEPT !.st = "failed"]
               /\ inflight' = inflight
               /\ requests' = requests
               /\ fetchLocks' = fetchLocks
               /\ info' = info]_vars

\* A kill request has failed while the process list was loaded and no
\* get_processes request was in flight: one alert, and still no request.
C34_Witness ==
    /\ \E k \in DOMAIN kills : kills[k].st = "failed"
    /\ alerts = 1
    /\ info["process"].data # JSNull
    /\ inflight["process"] = 0
    /\ ~fetchLocks["process"]

\* C35: the step in which a kill_process request succeeds starts a
\* get_processes request.
C35_FollowUpIssuesRequest ==
    [][\A k \in DOMAIN kills :
           kills[k].st = "pending" /\ kills'[k].st = "ok" =>
               inflight'["process"] = inflight["process"] + 1]_vars

\* The histories that domain d's fetcher writes.
HistoryOf(d) ==
    CASE d = "cpu" -> cpuHistory
      [] d = "memory" -> memoryHistory
      [] d = "disk" -> diskHistory
      [] d = "network" -> networkHistory
      [] OTHER -> <<>>

\* Domain d's request is outstanding before and after the step.
Unsettled(d) == inflight[d] > 0 /\ inflight'[d] >= inflight[d]

\* While the request of domain d is outstanding, a refresh of another domain e
\* whose flag is clear starts a request, and a request of e that is in flight
\* can be settled, which clears e's flag and loading.
OthersProceed(d) ==
    \A e \in Domains \ {d} :
        /\ ~fetchLocks[e] =>
               ENABLED (Refresh(e) /\ inflight'[e] = inflight[e] + 1 /\ fetchLocks'[e])
        /\ inflight[e] > 0 =>
               ENABLED (\E reply \in Replies(e) :
                            /\ Settle(e, reply, now)
                            /\ ~fetchLocks'[e] /\ ~info'[e].loading)

\* C36: as long as the request of a domain is not settled, the domain's
\* in-flight flag and loading are set and stay set through every step (nothing
\* but the reply clears them: no timeout, no cancellation), every step in that
\* time, a refresh of the domain included, leaves the domain's state, request
\* and history as they were, and the other domains' refreshes still start and
\* complete.
C36_StuckDomainStaysStuck ==
    /\ [](\A d \in Domains : inflight[d] > 0 =>
              fetchLocks[d] /\ info[d].loading /\ OthersProceed(d))
    /\ [][\A d \in Domains : Unsettled(d) =>
              /\ fetchLocks'[d] /\ info'[d].loading
              /\ info'[d] = info[d]
              /\ inflight'[d] = inflight[d]
              /\ requests'[d] = requests[d]
              /\ HistoryOf(d)' = HistoryOf(d)]_vars

\* The cpu request is outstanding, a later refresh of cpu was dropped (three
\* fetcher calls, two requests), and a memory request has been answered.
C36_Witness ==
    /\ inflight["cpu"] = 1 /\ fetchLocks["cpu"] /\ info["cpu"].loading
    /\ calls = 3 /\ issued = 2
    /\ inflight["memory"] = 0 /\ ~info["memory"].loading
    /\ info["memory"].data # JSNull

\* The other direction.
Flipped(order) == IF order = "asc" THEN "desc" ELSE "asc"

\* C37: the sort selection starts at (cpu_usage, desc); a click on the header
\* of the current key keeps the key and flips the direction, a click on
\* another header makes that column the key with direction desc whatever the
\* direction was; nothing else changes the selection, so the direction
\* becomes asc only by a click on the column that was already the key.
C37_SortSelection ==
    /\ sortBy = "cpu_usage" /\ sortOrder = "desc"
    /\ [][/\ \A column \in Columns :
                 sortColumn(column) =>
                     IF column = sortBy
                     THEN sortBy' = sortBy /\ sortOrder' = Flipped(sortOrder)
                     ELSE sortBy' = column /\ sortOrder' = "desc"
          /\ (sortBy' # sortBy \/ sortOrder' # sortOrder) =>
                 \E column \in Columns : sortColumn(column)
          /\ sortOrder' = "asc" /\ sortOrder # "asc" => sortBy' = sortBy]_vars

\* The header of name was clicked, which made it the key, and clicked again,
\* which made the direction asc, with the process list on screen.
C37_Witness ==
    /\ sortBy = "name" /\ sortOrder = "asc"
    /\ "processes" \in mounted
    /\ processes # <<>>

====
